---- MODULE Spec2Model ----
(***************************************************************************)
(* A model of the tool-dispatch, failure-tracking, upload-workflow,        *)
(* configuration and HTTP session layers of the OneAgent MCP server.       *)
(*                                                                         *)
(* JavaScript values are tagged records; identifier strings are sequences  *)
(* of one-character strings so that String.prototype.includes is computed, *)
(* error messages are sequences of message fragments so that wrapping      *)
(* (`Prefix: ${inner}`) is concatenation.                                  *)
(***************************************************************************)
EXTENDS Integers, Sequences, FiniteSets, TLC

(***************************************************************************)
(* Bounds of the model.                                                    *)
(***************************************************************************)
\* the clock is advanced at most this many ticks
MaxTicks == 3
\* at most this many call-tool requests are received in one behaviour
MaxRequests == 3
\* call-tool requests that may be in flight (suspended at an await) at once
MaxInFlight == 1
\* calls made in a run of the dispatcher specification
MaxDispatchRequests == 1
\* calls made in a run of the upload specification
MaxUploadRequests == 1
\* connections the HTTP server receives in one behaviour
MaxConns == 2
\* POST /mcp requests the HTTP server receives in one behaviour
MaxPosts == 2
MaxConfigCalls == 3
MaxRepeatRequests == 3
MaxRaceRequests == 4
MaxStreakRequests == 6
MaxThemeRequests == 2
MaxServers == 2
MaxServerCalls == 3

(***************************************************************************)
(* Program constants.                                                      *)
(***************************************************************************)
\* config-tools.ts:88, graphql-tools.ts.full:252  (2 minutes, in ms)
LOOP_WINDOW_MS == 120000
\* config-tools.ts:104, graphql-tools.ts.full:268 (5 minutes, in ms)
RESET_WINDOW_MS == 300000
\* config-tools.ts:88  attemptInfo.count >= 3
LOOP_THRESHOLD == 3
\* config-tools.ts:116 keep only last 5 errors
MAX_ERRORS == 5
\* config-tools.ts:89 errors.slice(-3)
LOOP_ERRORS_SHOWN == 3
\* one tick of the model's clock, in ms of Date.now(): gaps of 0, 2.5, 5 and
\* 7.5 minutes fall on either side of the 2-minute and 5-minute windows
TickMs == 150 * 1000

(***************************************************************************)
(* JavaScript values.                                                      *)
(***************************************************************************)
Undef == [t |-> "undef"]
Str(s) == [t |-> "str", s |-> s]
Word(w) == [t |-> "word", w |-> w]
Num(n) == [t |-> "num", n |-> n]
Bool(b) == [t |-> "bool", b |-> b]
Obj(o) == [t |-> "obj", o |-> o]

\* JavaScript truthiness (the `x &&`, `x ||` and `!x` tests of the source)
Truthy(v) ==
    CASE v.t = "undef" -> FALSE
      [] v.t = "str" -> v.s # <<>>
      [] v.t = "word" -> v.w # ""
      [] v.t = "num" -> v.n # 0
      [] v.t = "bool" -> v.b
      [] OTHER -> TRUE

IsString(v) == v.t \in {"str", "word"}

\* String.prototype.includes on character sequences
Includes(s, sub) ==
    \E i \in 1..(Len(s) - Len(sub) + 1) : SubSeq(s, i, i + Len(sub) - 1) = sub

\* Array.prototype.slice(-n)
SliceLast(seq, n) ==
    IF Len(seq) <= n THEN seq ELSE SubSeq(seq, Len(seq) - n + 1, Len(seq))

\* Array.prototype.join(sep) over message fragments
RECURSIVE Join(_, _)
Join(msgs, sep) ==
    IF msgs = <<>> THEN <<>>
    ELSE IF Len(msgs) = 1 THEN Head(msgs)
    ELSE Head(msgs) \o <<sep>> \o Join(Tail(msgs), sep)

\* one zod issue: the fragments it adds to a ZodError message
Issue(field, ok) == IF ok THEN <<>> ELSE <<"Invalid input at ", field>>

\* msg carries inner: inner is a contiguous part of msg
Carries(msg, inner) == Includes(msg, inner)

(***************************************************************************)
(* Argument bags.  A call's `arguments` is undefined or an object; an      *)
(* object is a function over Fields, Undef marking an absent property.     *)
(***************************************************************************)
Fields == {"organizationId", "objectId", "userId", "filePath", "objectType",
           "type", "updateTheme", "apiKey", "timeout", "fileDocumentId",
           "logoFile"}

EmptyObj == [f \in Fields |-> Undef]

\* args.f of the source; reading a property of undefined is a TypeError,
\* which the callers test with ArgsMissing before using Prop
ArgsMissing(args) == args.t # "obj"
Prop(args, f) == args.o[f]

YOUR_ == <<"y", "o", "u", "r", "_">>
PLACEHOLDER == <<"p", "l", "a", "c", "e", "h", "o", "l", "d", "e", "r">>
UNDERSCORE_HERE == <<"_", "h", "e", "r", "e">>

\* sample identifier strings
IdOrg == <<"o", "r", "g", "1">>
IdUser == <<"u", "7">>
IdYourOrgHere == <<"y", "o", "u", "r", "_", "o", "r", "g", "_", "i", "d", "_", "h", "e", "r", "e">>
IdPlaceholder == <<"p", "l", "a", "c", "e", "h", "o", "l", "d", "e", "r">>
IdOrgHere == <<"o", "r", "g", "_", "h", "e", "r", "e">>
PathPdf == <<"a", ".", "p", "d", "f">>

(***************************************************************************)
(* State.                                                                  *)
(***************************************************************************)
VARIABLES
    variant,         \* which GraphQLTools source is built in: "full" or "trimmed"
    now,             \* Date.now(), in ms
    failedAttempts,  \* registry -> Map<toolName, {count, lastAttempt, errors}>
    config,          \* ConfigManager.config: the cached Config, or Null
    envFile,         \* the content last written to .env.local, or Null
    processEnv,      \* process.env after dotenv loaded .env.local at construction
    calls,           \* slot -> the call-tool request suspended in that slot
    requests,        \* number of call-tool requests received so far
    last,            \* the most recent response of the call-tool request handler
    conns,           \* connection -> the GET /mcp request made on it and its channel
    sessions,        \* MCPHttpServer.sessions: the Map's entries in insertion order
    listener,        \* the HTTP listener and the position of stop()
    httpLast,        \* the most recent response to a POST /mcp, numbered
    managerLast,     \* the most recent direct call of a ConfigManager method
    listed,          \* the names in the most recent list-tools response, or Null
    servers,         \* the server instances made in this process, one per session
    envDefined,      \* the names process.env holds as own properties
    serverLast       \* the most recent call-tool response of a server instance

toolVars == <<variant, now, failedAttempts, config, envFile, processEnv, calls,
              requests, last>>
httpVars == <<conns, sessions, listener, httpLast>>
managerVars == <<managerLast>>
listVars == <<listed, servers, envDefined, serverLast>>
vars == <<variant, now, failedAttempts, config, envFile, processEnv, calls,
          requests, last, conns, sessions, listener, httpLast, managerLast,
          listed, servers, envDefined, serverLast>>

Null == [t |-> "null"]

(***************************************************************************)
(* ConfigManager (src/src/utils/validation.ts, second half).               *)
(***************************************************************************)
HARDCODED_GRAPHQL_ENDPOINT == "https://organization-gateway-service.staging.onewealth.io/graphql"

DigitVal(c) ==
    CASE c = "0" -> 0 [] c = "1" -> 1 [] c = "2" -> 2 [] c = "3" -> 3
      [] c = "4" -> 4 [] c = "5" -> 5 [] c = "6" -> 6 [] c = "7" -> 7
      [] c = "8" -> 8 [] c = "9" -> 9 [] OTHER -> -1

\* parseInt(s, 10) on a non-empty string: the leading decimal digits; NaN when
\* there is none
NaN == [t |-> "nan"]
RECURSIVE ParseDigits(_, _)
ParseDigits(s, acc) ==
    IF s = <<>> \/ DigitVal(Head(s)) < 0 THEN acc
    ELSE ParseDigits(Tail(s), 10 * acc + DigitVal(Head(s)))
ParseInt(s) ==
    IF s = <<>> \/ DigitVal(Head(s)) < 0 THEN NaN ELSE Num(ParseDigits(s, 0))

\* getConfig, lines 87-95: the configuration read from process.env
\* (`process.env.X || ''`: an unset variable reads as the empty string)
LoadFromEnv(env) ==
    [graphqlEndpoint |-> Word(HARDCODED_GRAPHQL_ENDPOINT),
     apiKey |-> Str(env.API_KEY),
     timeout |-> IF env.TIMEOUT # <<>> THEN ParseInt(env.TIMEOUT) ELSE Num(10000),
     retries |-> IF env.RETRIES # <<>> THEN ParseInt(env.RETRIES) ELSE Num(3),
     organizationId |-> Str(env.ORGANIZATION_ID),
     userId |-> Str(env.USER_ID)]

\* getConfig: the cached configuration, loaded on the first call
getConfig(cfg, env) == IF cfg # Null THEN cfg ELSE LoadFromEnv(env)

isConfigured(cfg, env) ==
    LET c == getConfig(cfg, env)
    IN c.graphqlEndpoint # Word("") /\ c.apiKey # Str(<<>>)

isFullyConfigured(cfg, env) ==
    LET c == getConfig(cfg, env)
    IN c.graphqlEndpoint # Word("") /\ c.apiKey # Str(<<>>)
       /\ c.organizationId # Str(<<>>) /\ c.userId # Str(<<>>)

MSG_ORG_NOT_CONFIGURED == <<"Organization ID not configured. Use config_set to set organizationId.">>
MSG_USER_NOT_CONFIGURED == <<"User ID not configured. Use config_set to set userId.">>

\* getOrganizationId / getUserId: [ok, value] or [ok = FALSE, message]
\* a getOrganizationId that returns the empty id it finds
getOrganizationId_silent(cfg, env) ==
    [ok |-> TRUE, message |-> <<>>, value |-> getConfig(cfg, env).organizationId]
getOrganizationId(cfg, env) ==
    LET c == getConfig(cfg, env)
    IN IF ~Truthy(c.organizationId)
       THEN [ok |-> FALSE, message |-> MSG_ORG_NOT_CONFIGURED, value |-> Undef]
       ELSE [ok |-> TRUE, message |-> <<>>, value |-> c.organizationId]

getUserId(cfg, env) ==
    LET c == getConfig(cfg, env)
    IN IF ~Truthy(c.userId)
       THEN [ok |-> FALSE, message |-> MSG_USER_NOT_CONFIGURED, value |-> Undef]
       ELSE [ok |-> TRUE, message |-> <<>>, value |-> c.userId]

\* `${v}` of a template literal
RECURSIVE Digits(_)
Digits(n) ==
    LET d == <<"0", "1", "2", "3", "4", "5", "6", "7", "8", "9">>[(n % 10) + 1]
    IN IF n < 10 THEN <<d>> ELSE Append(Digits(n \div 10), d)
ToChars(v) ==
    CASE v.t = "str" -> v.s
      [] v.t = "num" -> IF v.n < 0 THEN <<"-">> \o Digits(-v.n) ELSE Digits(v.n)
      [] v.t = "nan" -> <<"N", "a", "N">>
      [] v.t = "undef" -> <<"u", "n", "d", "e", "f", "i", "n", "e", "d">>
      [] v.t = "bool" -> IF v.b THEN <<"t", "r", "u", "e">> ELSE <<"f", "a", "l", "s", "e">>
      [] v.t = "word" -> <<v.w>>
      [] OTHER -> <<"?">>

\* a file that carries the endpoint as an active key
updateEnvFile_withEndpoint(c) ==
    [GRAPHQL_ENDPOINT |-> ToChars(c.graphqlEndpoint),
     API_KEY |-> ToChars(c.apiKey),
     TIMEOUT |-> ToChars(c.timeout),
     RETRIES |-> ToChars(c.retries),
     ORGANIZATION_ID |-> ToChars(c.organizationId),
     USER_ID |-> ToChars(c.userId)]

\* updateEnvFile(config): the active (uncommented) keys written to .env.local
updateEnvFile(c) ==
    [API_KEY |-> ToChars(c.apiKey),
     TIMEOUT |-> ToChars(c.timeout),
     RETRIES |-> ToChars(c.retries),
     ORGANIZATION_ID |-> ToChars(c.organizationId),
     USER_ID |-> ToChars(c.userId)]

OTHER_ENDPOINT == "https://example.com/graphql"
\* z.string().url()
IsUrl(v) == v.t = "word" /\ v.w \in {HARDCODED_GRAPHQL_ENDPOINT, OTHER_ENDPOINT}

\* ConfigSchema.parse(c), lines 58-65: the issues found
ConfigSchemaIssues(c) ==
    Issue("graphqlEndpoint", IsUrl(c.graphqlEndpoint))
    \o Issue("apiKey", IsString(c.apiKey))
    \o Issue("timeout", c.timeout.t \in {"num", "undef"})
    \o Issue("retries", c.retries.t \in {"num", "undef"})
    \o Issue("organizationId", c.organizationId.t = "undef" \/ IsString(c.organizationId))
    \o Issue("userId", c.userId.t = "undef" \/ IsString(c.userId))

ConfigKeys == {"graphqlEndpoint", "apiKey", "timeout", "retries", "organizationId", "userId"}

\* { ...currentConfig, ...updates }: updates is a function over the keys it has
Merge(c, updates) ==
    [k \in ConfigKeys |-> IF k \in DOMAIN updates THEN updates[k] ELSE c[k]]

MSG_ENDPOINT_HARDCODED == <<"GraphQL endpoint is hardcoded and cannot be changed">>
MSG_EACCES == <<"EACCES: permission denied, open '.env.local'">>

\* an updateConfig that leaves the endpoint to the schema alone
updateConfig_unguarded(cfg, env, file, updates, writeOk) ==
    LET currentConfig == getConfig(cfg, env)
        newConfig == Merge(currentConfig, updates)
        issues == ConfigSchemaIssues(newConfig)
    IN IF issues # <<>>
       THEN [threw |-> TRUE,
             message |-> <<"Invalid config: ", "ZodError: ">> \o issues,
             config |-> currentConfig, file |-> file]
       ELSE IF ~writeOk
       THEN [threw |-> TRUE, message |-> <<"Invalid config: ">> \o MSG_EACCES,
             config |-> newConfig, file |-> file]
       ELSE [threw |-> FALSE, message |-> <<>>,
             config |-> newConfig, file |-> updateEnvFile(newConfig)]

\* updateConfig(updates); writeOk: whether writeFileSync succeeds.
\* Gives the cache and the file afterwards and the error thrown, if any.
updateConfig(cfg, env, file, updates, writeOk) ==
    LET currentConfig == getConfig(cfg, env)
        newConfig == Merge(currentConfig, updates)
        issues == ConfigSchemaIssues(newConfig)
    IN IF "graphqlEndpoint" \in DOMAIN updates
          /\ Truthy(updates["graphqlEndpoint"])
          /\ updates["graphqlEndpoint"] # Word(HARDCODED_GRAPHQL_ENDPOINT)
       THEN [threw |-> TRUE, message |-> MSG_ENDPOINT_HARDCODED,
             config |-> currentConfig, file |-> file]
       ELSE IF issues # <<>>
       THEN [threw |-> TRUE,
             message |-> <<"Invalid config: ", "ZodError: ">> \o issues,
             config |-> currentConfig, file |-> file]
       ELSE IF ~writeOk
       THEN [threw |-> TRUE, message |-> <<"Invalid config: ">> \o MSG_EACCES,
             config |-> newConfig, file |-> file]
       ELSE [threw |-> FALSE, message |-> <<>>,
             config |-> newConfig, file |-> updateEnvFile(newConfig)]

DefaultConfig ==
    [graphqlEndpoint |-> Word(HARDCODED_GRAPHQL_ENDPOINT),
     apiKey |-> Str(<<>>),
     timeout |-> Num(10000),
     retries |-> Num(3),
     organizationId |-> Str(<<>>),
     userId |-> Str(<<>>)]

\* resetConfig()
resetConfig(file, writeOk) ==
    IF writeOk
    THEN [threw |-> FALSE, message |-> <<>>, config |-> Null,
          file |-> updateEnvFile(DefaultConfig)]
    ELSE [threw |-> TRUE, message |-> MSG_EACCES, config |-> Null, file |-> file]

\* no ConfigManager method was called directly yet
NoManagerCall ==
    [seq |-> 0, op |-> "none", updates |-> [x \in {} |-> Undef],
     threw |-> FALSE, message |-> <<>>, returned |-> Null,
     before |-> [config |-> Null, file |-> Null]]

\* a caller holding the ConfigManager calls getConfig()
GetConfigCall ==
    /\ config' = getConfig(config, processEnv)
    /\ managerLast' = [NoManagerCall EXCEPT !.seq = managerLast.seq + 1,
                                            !.op = "getConfig",
                                            !.returned = getConfig(config, processEnv),
                                            !.before = [config |-> config, file |-> envFile]]
    /\ UNCHANGED <<variant, now, failedAttempts, envFile, processEnv, calls,
                   requests, last>>
    /\ UNCHANGED <<httpVars, listVars>>

\* a caller calls updateConfig(updates)
UpdateConfigCall(updates, writeOk) ==
    LET r == updateConfig(config, processEnv, envFile, updates, writeOk)
    IN /\ config' = r.config
       /\ envFile' = r.file
       /\ managerLast' = [NoManagerCall EXCEPT !.seq = managerLast.seq + 1,
                                               !.op = "updateConfig",
                                               !.updates = updates,
                                               !.threw = r.threw,
                                               !.message = r.message,
                                               !.before = [config |-> config, file |-> envFile]]
       /\ UNCHANGED <<variant, now, failedAttempts, processEnv, calls, requests, last>>
       /\ UNCHANGED <<httpVars, listVars>>

\* a caller calls resetConfig()
ResetConfigCall(writeOk) ==
    LET r == resetConfig(envFile, writeOk)
    IN /\ config' = r.config
       /\ envFile' = r.file
       /\ managerLast' = [NoManagerCall EXCEPT !.seq = managerLast.seq + 1,
                                               !.op = "resetConfig",
                                               !.threw = r.threw,
                                               !.message = r.message,
                                               !.before = [config |-> config, file |-> envFile]]
       /\ UNCHANGED <<variant, now, failedAttempts, processEnv, calls, requests, last>>
       /\ UNCHANGED <<httpVars, listVars>>

(***************************************************************************)
(* The failure tracker (ConfigTools and the full GraphQLTools hold the     *)
(* same code, each over its own Map).                                      *)
(***************************************************************************)
MapGet(m, k) == IF k \in DOMAIN m THEN m[k] ELSE Undef
MapHas(m, k) == k \in DOMAIN m
\* a set that rebuilds the Map around the one entry
MapSet_rebuilt(m, k, v) == [x \in {k} |-> v]
MapSet(m, k, v) == [x \in (DOMAIN m) \cup {k} |-> IF x = k THEN v ELSE m[x]]
MapDelete(m, k) == [x \in (DOMAIN m) \ {k} |-> m[x]]
EmptyMap == [x \in {} |-> Undef]

FreshAttempt(t, errorMessage) ==
    [count |-> 1, lastAttempt |-> t, errors |-> <<errorMessage>>]

\* a tracker that never starts a streak afresh
trackFailedAttempt_noReset(m, toolName, errorMessage, t) ==
    IF MapHas(m, toolName)
    THEN MapSet(m, toolName,
                [count |-> m[toolName].count + 1, lastAttempt |-> t,
                 errors |-> SliceLast(Append(m[toolName].errors, errorMessage),
                                      MAX_ERRORS)])
    ELSE MapSet(m, toolName, FreshAttempt(t, errorMessage))

\* a tracker that starts afresh already at a gap of exactly 5 minutes
trackFailedAttempt_atFive(m, toolName, errorMessage, t) ==
    IF MapHas(m, toolName) /\ t - m[toolName].lastAttempt < RESET_WINDOW_MS
    THEN MapSet(m, toolName,
                [count |-> m[toolName].count + 1, lastAttempt |-> t,
                 errors |-> SliceLast(Append(m[toolName].errors, errorMessage),
                                      MAX_ERRORS)])
    ELSE MapSet(m, toolName, FreshAttempt(t, errorMessage))

\* a tracker that keeps every message of the streak
trackFailedAttempt_unbounded(m, toolName, errorMessage, t) ==
    IF MapHas(m, toolName) /\ t - m[toolName].lastAttempt <= RESET_WINDOW_MS
    THEN MapSet(m, toolName,
                [count |-> m[toolName].count + 1, lastAttempt |-> t,
                 errors |-> Append(m[toolName].errors, errorMessage)])
    ELSE MapSet(m, toolName, FreshAttempt(t, errorMessage))

\* trackFailedAttempt(toolName, errorMessage) at Date.now() = t
trackFailedAttempt(m, toolName, errorMessage, t) ==
    IF MapHas(m, toolName)
    THEN LET existing == m[toolName]
         IN IF t - existing.lastAttempt > RESET_WINDOW_MS
            THEN MapSet(m, toolName, FreshAttempt(t, errorMessage))
            ELSE MapSet(m, toolName,
                        [count |-> existing.count + 1,
                         lastAttempt |-> t,
                         errors |-> SliceLast(Append(existing.errors, errorMessage),
                                              MAX_ERRORS)])
    ELSE MapSet(m, toolName, FreshAttempt(t, errorMessage))

\* a clear that leaves the record in place
clearFailedAttempts_kept(m, toolName) == m
clearFailedAttempts(m, toolName) == MapDelete(m, toolName)

LOOP_DETECTED == "LOOP DETECTED: This tool has failed "
LOOP_ADVICE == " times in the last 2 minutes with similar errors. Please STOP retrying and ask the user for clarification or different parameters. Recent errors: "

\* a loop message that quotes the oldest errors held
LoopMessage_oldest(info) ==
    <<LOOP_DETECTED, ToString(info.count), LOOP_ADVICE>>
        \o Join(SubSeq(info.errors, 1, LOOP_ERRORS_SHOWN), "; ")
LoopMessage(info) ==
    <<LOOP_DETECTED, ToString(info.count), LOOP_ADVICE>>
        \o Join(SliceLast(info.errors, LOOP_ERRORS_SHOWN), "; ")

IsLoopMessage(msg) == Len(msg) >= 1 /\ msg[1] = LOOP_DETECTED

\* a loop test that needs one failure more
InLoop_late(m, name, t) ==
    /\ MapHas(m, name)
    /\ m[name].count > LOOP_THRESHOLD
    /\ (t - m[name].lastAttempt) < LOOP_WINDOW_MS

\* the loop test of the catch block, lines 87-88, at Date.now() = t
InLoop(m, name, t) ==
    /\ MapHas(m, name)
    /\ m[name].count >= LOOP_THRESHOLD
    /\ (t - m[name].lastAttempt) < LOOP_WINDOW_MS

\* the catch block of handleTool, lines 82-95: the Map afterwards and the
\* message of the error it throws.  The two Date.now() reads of the block
\* (in trackFailedAttempt and in the loop test) fall in the same tick.
CatchBlock(m, name, errorMessage, t) ==
    LET m2 == trackFailedAttempt(m, name, errorMessage, t)
    IN [map |-> m2,
        message |-> IF InLoop(m2, name, t) THEN LoopMessage(m2[name])
                    ELSE errorMessage]

(***************************************************************************)
(* Input schemas (zod).  A parse gives [ok, value] with the defaults       *)
(* filled in and the keys the schema does not name stripped, or            *)
(* [ok = FALSE, message], the message listing the issues in schema order.  *)
(***************************************************************************)
\* z.string().optional()
OptString(v) == v.t = "undef" \/ IsString(v)
\* z.string().min(1).optional()
OptStringMin1(v) == v.t = "undef" \/ (IsString(v) /\ Truthy(v))
\* z.string().min(1)
ReqStringMin1(v) == IsString(v) /\ Truthy(v)
\* z.number().min(lo).max(hi).optional()
OptNumber(v, lo, hi) == v.t = "undef" \/ (v.t = "num" /\ v.n >= lo /\ v.n <= hi)
\* z.enum(set).default(d)
DefEnum(v, set) == v.t = "undef" \/ (v.t = "word" /\ v.w \in set)
\* z.boolean().default(d)
DefBool(v) == v.t \in {"undef", "bool"}

Default(v, d) == IF v.t = "undef" THEN d ELSE v

Variants == {"full", "trimmed"}

OBJECT_TYPES == {"ORGANIZATION", "USER", "CLIENT"}
\* config-tools.ts 248 (full) and unnamed/part_008 35 (trimmed)
FILE_TYPES(v) ==
    IF v = "full" THEN {"LOGO", "AVATAR", "DOCUMENT", "IMAGE"}
    ELSE {"AVATAR", "DOCUMENT", "IMAGE"}

\* the issues of each schema on an object o
ConfigSetIssues(o) ==
    Issue("apiKey", OptString(o["apiKey"]))
    \o Issue("timeout", OptNumber(o["timeout"], 1000, 30000))
    \o Issue("organizationId", OptString(o["organizationId"]))
    \o Issue("userId", OptString(o["userId"]))

UploadFileIssues(v, o) ==
    Issue("filePath", ReqStringMin1(o["filePath"]))
    \o Issue("objectType", DefEnum(o["objectType"], OBJECT_TYPES))
    \o Issue("objectId", OptStringMin1(o["objectId"]))
    \o Issue("type", DefEnum(o["type"], FILE_TYPES(v)))
    \o Issue("userId", OptStringMin1(o["userId"]))
    \o (IF v = "full" THEN Issue("updateTheme", DefBool(o["updateTheme"])) ELSE <<>>)

FilePathIssues(o) == Issue("filePath", ReqStringMin1(o["filePath"]))
OrganizationIdIssues(o) == Issue("organizationId", OptStringMin1(o["organizationId"]))
FileDocumentIdIssues(o) == Issue("fileDocumentId", ReqStringMin1(o["fileDocumentId"]))

\* the logoFile object of update_organization_theme: fileName, userId and, in
\* the full source, filePath (generateUniqueFileName and permissionType have
\* defaults and are read by no branch)
LogoFile(fileName, filePath, userId) ==
    Obj([fileName |-> fileName, filePath |-> filePath, userId |-> userId])

LogoFileIssues(v, o) ==
    LET l == o["logoFile"]
    IN IF l.t = "undef" THEN <<>>
       ELSE IF l.t # "obj" THEN Issue("logoFile", FALSE)
       ELSE Issue("logoFile.fileName", ReqStringMin1(l.o.fileName))
            \o (IF v = "full"
                THEN Issue("logoFile.filePath", ReqStringMin1(l.o.filePath))
                ELSE <<>>)
            \o Issue("logoFile.userId", ReqStringMin1(l.o.userId))

ThemeIssues(v, o) == OrganizationIdIssues(o) \o LogoFileIssues(v, o)

\* the parsed logoFile: the trimmed schema does not name filePath and strips it
ParsedLogoFile(v, l) ==
    IF l.t = "obj" /\ v = "trimmed" THEN Obj([l.o EXCEPT !.filePath = Undef]) ELSE l

SchemaIssues(v, name, o) ==
    CASE name = "config_set" -> ConfigSetIssues(o)
      [] name = "upload_file" -> UploadFileIssues(v, o)
      [] name \in {"view_pdf", "extract_pdf_text", "get_pdf_info"} -> FilePathIssues(o)
      [] name = "update_organization_theme" -> ThemeIssues(v, o)
      [] name \in {"list_organization_logos", "verify_organization_logo"} ->
            OrganizationIdIssues(o)
      [] name = "get_logo_download_url" -> FileDocumentIdIssues(o)
      [] OTHER -> <<>>

SchemaKeys(v, name) ==
    CASE name = "config_set" -> {"apiKey", "timeout", "organizationId", "userId"}
      [] name = "upload_file" ->
            {"filePath", "objectType", "objectId", "type", "userId"}
                \cup (IF v = "full" THEN {"updateTheme"} ELSE {})
      [] name \in {"view_pdf", "extract_pdf_text", "get_pdf_info"} -> {"filePath"}
      [] name = "update_organization_theme" -> {"organizationId", "logoFile"}
      [] name \in {"list_organization_logos", "verify_organization_logo"} ->
            {"organizationId"}
      [] name = "get_logo_download_url" -> {"fileDocumentId"}
      [] OTHER -> {}

SchemaDefault(v, name, f) ==
    CASE name = "upload_file" /\ f = "objectType" -> Word("ORGANIZATION")
      [] name = "upload_file" /\ f = "type" ->
            IF v = "full" THEN Word("LOGO") ELSE Word("DOCUMENT")
      [] name = "upload_file" /\ f = "updateTheme" -> Bool(FALSE)
      [] OTHER -> Undef

\* tool.inputSchema.parse(args)
Parse(v, name, args) ==
    IF args.t # "obj"
    THEN [ok |-> FALSE, message |-> <<"ZodError: ", "Required">>]
    ELSE LET issues == SchemaIssues(v, name, args.o)
         IN IF issues # <<>>
            THEN [ok |-> FALSE, message |-> <<"ZodError: ">> \o issues]
            ELSE [ok |-> TRUE,
                  value |-> [f \in Fields |->
                                IF f \notin SchemaKeys(v, name) THEN Undef
                                ELSE IF f = "logoFile"
                                THEN ParsedLogoFile(v, args.o[f])
                                ELSE Default(args.o[f], SchemaDefault(v, name, f))]]

(***************************************************************************)
(* The registries: each class's tools, in the order initializeTools        *)
(* lists them.                                                             *)
(***************************************************************************)
GraphQLToolNames(v) ==
    IF v = "full"
    THEN <<"update_organization_theme", "list_organization_logos",
           "get_logo_download_url", "verify_organization_logo">>
    ELSE <<"update_organization_theme">>
PDFToolNames == <<"view_pdf", "extract_pdf_text", "get_pdf_info">>
ImageUploadToolNames == <<"upload_file">>
ConfigToolNames == <<"config_get", "config_set", "config_reset", "config_status">>

Range(seq) == {seq[i] : i \in 1..Len(seq)}

Registries == <<"graphql", "pdf", "upload", "config">>

RegistryNames(reg, v) ==
    CASE reg = "graphql" -> GraphQLToolNames(v)
      [] reg = "pdf" -> PDFToolNames
      [] reg = "upload" -> ImageUploadToolNames
      [] reg = "config" -> ConfigToolNames

\* hasTool(name) of registry reg
hasTool(reg, v, name) == name \in Range(RegistryNames(reg, v))

\* the registries that own a failedAttempts Map
HasTracker(reg, v) == reg = "config" \/ (reg = "graphql" /\ v = "full")

(***************************************************************************)
(* handleTool of each registry, up to the call of the tool's handler.      *)
(* An outcome is either Thrown (the stage that threw, the message, the     *)
(* registry's Map afterwards) or Validated (the parsed arguments the       *)
(* handler is called with, the Map afterwards).                            *)
(***************************************************************************)
Thrown(stage, message, m) ==
    [threw |-> TRUE, stage |-> stage, message |-> message, map |-> m,
     value |-> EmptyObj]
Validated(value, m) ==
    [threw |-> FALSE, stage |-> "handler", message |-> <<>>, map |-> m,
     value |-> value]

MSG_INCOMPLETE == <<"Server configuration is incomplete. Use config_set to configure API key and other required settings.">>
MSG_INVALID_ORG(f) == <<"Invalid organization ID provided. Please omit the ", f, " parameter to use the configured value, or provide a valid organization ID.">>
MSG_INVALID_USER(f) == <<"Invalid user ID provided. Please omit the ", f, " parameter to use the configured value, or provide a valid user ID.">>
MSG_READ_OF_UNDEFINED(f) == <<"Cannot read properties of undefined (reading '", f, "')">>
MSG_NOT_A_FUNCTION(f) == <<"args.", f, ".includes is not a function">>
ToolNotFound(name) == <<"Tool ", name, " not found">>

IsPlaceholder(s) ==
    Includes(s, YOUR_) \/ Includes(s, PLACEHOLDER) \/ Includes(s, UNDERSCORE_HERE)

\* `args.f && (args.f.includes('your_') || args.f.includes('placeholder')
\*  || args.f.includes('_here'))` on an args object
PlaceholderTest(args, f) ==
    LET v == Prop(args, f)
    IN IF ~Truthy(v) THEN "pass"
       ELSE IF v.t = "str" THEN (IF IsPlaceholder(v.s) THEN "reject" ELSE "pass")
       ELSE IF v.t = "word" THEN "pass"
       ELSE "typeerror"

\* a parse that leaves the record in place when the arguments are valid
TrackedParse_kept(name, args, m, t) ==
    LET p == Parse("full", name, args)
    IN IF p.ok
       THEN Validated(p.value, m)
       ELSE LET cb == CatchBlock(m, name, p.message, t)
            IN Thrown("validation", cb.message, cb.map)

\* the try block of handleTool up to the handler call, and its catch block
\* when the parse throws (config-tools.ts 75-95, graphql-tools.ts.full 238-259)
TrackedParse(name, args, m, t) ==
    LET p == Parse("full", name, args)
    IN IF p.ok
       THEN Validated(p.value, clearFailedAttempts(m, name))
       ELSE LET cb == CatchBlock(m, name, p.message, t)
            IN Thrown("validation", cb.message, cb.map)

\* `const validatedArgs = tool.inputSchema.parse(args)` outside any try
PlainParse(v, name, args, m) ==
    LET p == Parse(v, name, args)
    IN IF p.ok THEN Validated(p.value, m) ELSE Thrown("validation", p.message, m)

ConfigTools_handleTool(name, args, m, t) ==
    IF ~hasTool("config", "full", name) THEN Thrown("notfound", ToolNotFound(name), m)
    ELSE TrackedParse(name, args, m, t)

PDFTools_handleTool(name, args, m) ==
    IF ~hasTool("pdf", "full", name) THEN Thrown("notfound", ToolNotFound(name), m)
    ELSE PlainParse("full", name, args, m)

\* pre-checks without the configuration check
GraphQLPreChecks_open(args, m, configured) == Validated(EmptyObj, m)
\* the checks both GraphQLTools sources make before parsing
GraphQLPreChecks(args, m, configured) ==
    IF ~configured THEN Thrown("config", MSG_INCOMPLETE, m)
    ELSE IF ArgsMissing(args)
    THEN Thrown("typeerror", MSG_READ_OF_UNDEFINED("organizationId"), m)
    ELSE LET ph == PlaceholderTest(args, "organizationId")
         IN IF ph = "typeerror"
            THEN Thrown("typeerror", MSG_NOT_A_FUNCTION("organizationId"), m)
            ELSE IF ph = "reject"
            THEN Thrown("placeholder", MSG_INVALID_ORG("organizationId"), m)
            ELSE Validated(EmptyObj, m)

\* a handleTool that makes its pre-checks inside the try block
GraphQLToolsFull_handleTool_checksInTry(name, args, m, configured, t) ==
    IF ~hasTool("graphql", "full", name) THEN Thrown("notfound", ToolNotFound(name), m)
    ELSE LET pre == GraphQLPreChecks(args, m, configured)
         IN IF pre.threw
            THEN Thrown(pre.stage, CatchBlock(m, name, pre.message, t).message,
                        CatchBlock(m, name, pre.message, t).map)
            ELSE TrackedParse(name, args, m, t)

\* GraphQLTools.handleTool of graphql-tools.ts.full
GraphQLToolsFull_handleTool(name, args, m, configured, t) ==
    IF ~hasTool("graphql", "full", name) THEN Thrown("notfound", ToolNotFound(name), m)
    ELSE LET pre == GraphQLPreChecks(args, m, configured)
         IN IF pre.threw THEN pre ELSE TrackedParse(name, args, m, t)

\* GraphQLTools.handleTool of the trimmed source (unnamed/part_003)
GraphQLTools_handleTool(name, args, m, configured) ==
    IF ~hasTool("graphql", "trimmed", name) THEN Thrown("notfound", ToolNotFound(name), m)
    ELSE LET pre == GraphQLPreChecks(args, m, configured)
         IN IF pre.threw THEN pre ELSE PlainParse("trimmed", name, args, m)

ImageUploadTools_handleTool(v, name, args, m, configured) ==
    IF ~hasTool("upload", "full", name) THEN Thrown("notfound", ToolNotFound(name), m)
    ELSE IF ~configured THEN Thrown("config", MSG_INCOMPLETE, m)
    ELSE IF ArgsMissing(args)
    THEN Thrown("typeerror", MSG_READ_OF_UNDEFINED("objectId"), m)
    ELSE LET ph1 == PlaceholderTest(args, "objectId")
             ph2 == PlaceholderTest(args, "userId")
         IN IF ph1 = "typeerror"
            THEN Thrown("typeerror", MSG_NOT_A_FUNCTION("objectId"), m)
            ELSE IF ph1 = "reject"
            THEN Thrown("placeholder", MSG_INVALID_ORG("objectId"), m)
            ELSE IF ph2 = "typeerror"
            THEN Thrown("typeerror", MSG_NOT_A_FUNCTION("userId"), m)
            ELSE IF ph2 = "reject"
            THEN Thrown("placeholder", MSG_INVALID_USER("userId"), m)
            ELSE PlainParse(v, name, args, m)

\* getTools() of registry reg: the names of its tools, in order
getTools(reg, v) == RegistryNames(reg, v)

\* a list that leaves the theme registry out
ListTools_withoutTheme(v) ==
    getTools("pdf", v) \o getTools("upload", v) \o getTools("config", v)
\* the tools array of the list-tools handler
ListTools(v) ==
    getTools("graphql", v) \o getTools("pdf", v) \o getTools("upload", v)
        \o getTools("config", v)

\* the registry the call-tool request handler routes name to, "" when none
RouteOf(v, name) ==
    IF hasTool("graphql", v, name) THEN "graphql"
    ELSE IF hasTool("pdf", v, name) THEN "pdf"
    ELSE IF hasTool("upload", v, name) THEN "upload"
    ELSE IF hasTool("config", v, name) THEN "config"
    ELSE ""

\* the registries whose handleTool calls configManager.isConfigured()
ChecksConfiguration(reg) == reg \in {"graphql", "upload"}

\* handlers.<registry>.handleTool(name, args) up to the handler call;
\* m is that registry's Map (EmptyMap for a registry without one)
HandleTool(reg, v, name, args, m, configured, t) ==
    CASE reg = "graphql" /\ v = "full" ->
            GraphQLToolsFull_handleTool(name, args, m, configured, t)
      [] reg = "graphql" /\ v # "full" ->
            GraphQLTools_handleTool(name, args, m, configured)
      [] reg = "pdf" -> PDFTools_handleTool(name, args, m)
      [] reg = "upload" -> ImageUploadTools_handleTool(v, name, args, m, configured)
      [] reg = "config" -> ConfigTools_handleTool(name, args, m, t)
      [] OTHER -> Thrown("unknown", <<"Unknown tool: ", name>>, m)

\* a catch block that records a handler's failure as the first of a streak,
\* whatever the Map holds by then
HandlerRejected_fresh(reg, v, name, message, m, t) ==
    IF HasTracker(reg, v)
    THEN [map |-> MapSet(m, name, FreshAttempt(t, message)), message |-> message]
    ELSE [map |-> m, message |-> message]

\* what handleTool does when the handler's promise rejects with message:
\* the catch block in the registries that have one, a plain rethrow elsewhere
HandlerRejected(reg, v, name, message, m, t) ==
    IF HasTracker(reg, v)
    THEN CatchBlock(m, name, message, t)
    ELSE [map |-> m, message |-> message]

\* a catch that drops the error's message
ErrorResult_bare(name, message) ==
    [isError |-> TRUE, text |-> <<"Error executing tool ", name, ": ">>,
     payload |-> Null]
\* the catch of the call-tool request handler (part_006 108-120)
ErrorResult(name, message) ==
    [isError |-> TRUE,
     text |-> <<"Error executing tool ", name, ": ">> \o message,
     payload |-> Null]
SuccessResult(payload) == [isError |-> FALSE, text |-> <<>>, payload |-> payload]

(***************************************************************************)
(* The handlers.  HandlerStart is the part of a handler that runs          *)
(* synchronously when handleTool calls it: it gives the place the call is  *)
(* suspended at (pc), the settled outcome when the handler has no await    *)
(* left (pc = "settle"), the remote calls issued and the configuration     *)
(* cache and file afterwards.                                              *)
(***************************************************************************)
Settled(threw, message, payload) ==
    [threw |-> threw, message |-> message, payload |-> payload]

Suspended(pc, issued, cfg, file) ==
    [pc |-> pc, outcome |-> Null, issued |-> issued, config |-> cfg, file |-> file]
Finished(outcome, cfg, file) ==
    [pc |-> "settle", outcome |-> outcome, issued |-> <<>>, config |-> cfg,
     file |-> file]

STARS == <<"*", "*", "*">>
\* config.apiKey ? '***' + config.apiKey.slice(-4) : ''
MaskApiKey(k) == IF Truthy(k) THEN Str(STARS \o SliceLast(k.s, 4)) ELSE Str(<<>>)

\* the keys a parsed config_set argument object holds
UpdatesOf(value) ==
    [k \in {f \in {"apiKey", "timeout", "organizationId", "userId"} :
              value[f] # Undef} |-> value[k]]

\* ConfigTools.getConfig
ConfigTools_getConfig(cfg, env, file) ==
    LET c == getConfig(cfg, env)
    IN Finished(Settled(FALSE, <<>>,
                        [kind |-> "config_get",
                         safeConfig |-> [c EXCEPT !.apiKey = MaskApiKey(c.apiKey)]]),
                c, file)

\* ConfigTools.setConfig
ConfigTools_setConfig(value, cfg, env, file, writeOk) ==
    LET r == updateConfig(cfg, env, file, UpdatesOf(value), writeOk)
    IN IF r.threw
       THEN Finished(Settled(TRUE, <<"Failed to update configuration: ">> \o r.message,
                             Null), r.config, r.file)
       ELSE Finished(Settled(FALSE, <<>>, [kind |-> "config_set"]), r.config, r.file)

\* ConfigTools.resetConfig
ConfigTools_resetConfig(file, writeOk) ==
    LET r == resetConfig(file, writeOk)
    IN IF r.threw
       THEN Finished(Settled(TRUE, <<"Failed to reset configuration: ">> \o r.message,
                             Null), r.config, r.file)
       ELSE Finished(Settled(FALSE, <<>>, [kind |-> "config_reset"]), r.config, r.file)

\* ConfigTools.getConfigStatus
ConfigTools_getConfigStatus(cfg, env, file) ==
    LET c == getConfig(cfg, env)
    IN Finished(Settled(FALSE, <<>>,
                        [kind |-> "config_status",
                         isConfigured |-> isConfigured(cfg, env),
                         isFullyConfigured |-> isFullyConfigured(cfg, env),
                         hasApiKey |-> c.apiKey # Str(<<>>),
                         hasOrganizationId |-> c.organizationId # Str(<<>>),
                         hasUserId |-> c.userId # Str(<<>>)]),
                c, file)

\* the prefix each handler's catch puts before the message it rethrows
HandlerPrefix(name) ==
    CASE name = "update_organization_theme" -> <<"Theme update failed: ">>
      [] name = "list_organization_logos" -> <<"Failed to list organization logos: ">>
      [] name = "get_logo_download_url" -> <<"Failed to get logo download URL: ">>
      [] name = "verify_organization_logo" -> <<"Failed to verify organization logo: ">>
      [] name = "upload_file" -> <<"Failed to upload file: ">>
      [] name = "view_pdf" -> <<"PDF viewing failed: ">>
      [] name = "extract_pdf_text" -> <<"PDF text extraction failed: ">>
      [] name = "get_pdf_info" -> <<"PDF info extraction failed: ">>
      [] OTHER -> <<>>

\* `args.f || this.configManager.getX()`
OrConfigured(v, fromConfig) ==
    IF Truthy(v) THEN [ok |-> TRUE, message |-> <<>>, value |-> v] ELSE fromConfig

\* `args.logoFile?.userId`
LogoUserId(value) ==
    IF value["logoFile"].t = "obj" THEN value["logoFile"].o.userId ELSE Undef

\* the GraphQLTools handlers up to their first remote call; a theme update
\* with a logoFile first asks for the upload URL, one without goes straight
\* to the organization update
GraphQLTools_handlerStart(name, value, cfg, env, file) ==
    LET c == getConfig(cfg, env)
        org == OrConfigured(value["organizationId"], getOrganizationId(cfg, env))
        usr == OrConfigured(LogoUserId(value), getUserId(cfg, env))
    IN IF name = "get_logo_download_url"
       THEN Suspended("remote", <<>>, cfg, file)
       ELSE IF ~org.ok
       THEN Finished(Settled(TRUE, HandlerPrefix(name) \o org.message, Null), c, file)
       ELSE IF name # "update_organization_theme"
       THEN Suspended("remote", <<>>, c, file)
       ELSE IF ~usr.ok
       THEN Finished(Settled(TRUE, HandlerPrefix(name) \o usr.message, Null), c, file)
       ELSE IF Truthy(value["logoFile"])
       THEN Suspended("logoUrl", <<"fetchFileUploadUrl">>, c, file)
       ELSE Suspended("remote", <<"updateOrganization">>, c, file)

\* ImageUploadTools.uploadFile up to the request of step 1
uploadFile_start(value, cfg, env, file) ==
    LET c == getConfig(cfg, env)
        org == OrConfigured(value["objectId"], getOrganizationId(cfg, env))
        usr == OrConfigured(value["userId"], getUserId(cfg, env))
    IN IF ~org.ok
       THEN Finished(Settled(TRUE, HandlerPrefix("upload_file") \o org.message, Null),
                     c, file)
       ELSE IF ~usr.ok
       THEN Finished(Settled(TRUE, HandlerPrefix("upload_file") \o usr.message, Null),
                     c, file)
       ELSE Suspended("step1", <<"fetchFileUploadUrl">>, c, file)

HandlerStart(reg, name, value, cfg, env, file, writeOk) ==
    CASE name = "config_get" -> ConfigTools_getConfig(cfg, env, file)
      [] name = "config_set" -> ConfigTools_setConfig(value, cfg, env, file, writeOk)
      [] name = "config_reset" -> ConfigTools_resetConfig(file, writeOk)
      [] name = "config_status" -> ConfigTools_getConfigStatus(cfg, env, file)
      [] reg = "graphql" -> GraphQLTools_handlerStart(name, value, cfg, env, file)
      [] reg = "upload" -> uploadFile_start(value, cfg, env, file)
      [] OTHER -> Suspended("remote", <<>>, cfg, file)

(***************************************************************************)
(* Calls in flight and responses.                                          *)
(***************************************************************************)
Slots == 1..MaxInFlight

IdleCall ==
    [pc |-> "idle", id |-> 0, reg |-> "", name |-> "", args |-> Undef,
     value |-> EmptyObj, issued |-> <<>>, outcome |-> Null,
     logoUploadResult |-> Null]

\* a response, with what the request handler saw: the stage the call ended
\* at, its time, the remote calls it issued and the failure record of the
\* name as it was when the call's last step began
NoResponse ==
    [id |-> 0, name |-> "", args |-> Undef, stage |-> "none",
     result |-> SuccessResult(Null), issued |-> <<>>, at |-> 0, before |-> Undef]

TrackerRegistries == {"graphql", "config"}
MapOf(fa, reg) == IF reg \in TrackerRegistries THEN fa[reg] ELSE EmptyMap
WithMap(fa, reg, m) ==
    IF reg \in TrackerRegistries THEN [fa EXCEPT ![reg] = m] ELSE fa

\* the failure record of an operation name, Undef when there is none
RecordOf(fa, name) ==
    IF \E reg \in TrackerRegistries : MapHas(fa[reg], name)
    THEN fa[CHOOSE reg \in TrackerRegistries : MapHas(fa[reg], name)][name]
    ELSE Undef

\* the call-tool request handler, up to the first suspension of the tool's
\* handler: routing, handleTool's checks and parse, the handler's synchronous
\* part.  A call that throws before its handler is called is answered at once.
\* A slot only names a call in flight, so a new call takes the lowest free one.
CallToolRequest(c, name, args, writeOk) ==
    /\ calls[c].pc = "idle"
    /\ \A d \in DOMAIN calls : d < c => calls[d].pc # "idle"
    /\ LET reg == RouteOf(variant, name)
           configured == isConfigured(config, processEnv)
           cfg1 == IF ChecksConfiguration(reg) THEN getConfig(config, processEnv)
                   ELSE config
           pre == HandleTool(reg, variant, name, args, MapOf(failedAttempts, reg),
                             configured, now)
           start == HandlerStart(reg, name, pre.value, cfg1, processEnv, envFile,
                                 writeOk)
       IN /\ requests' = requests + 1
          /\ failedAttempts' = WithMap(failedAttempts, reg, pre.map)
          /\ IF pre.threw
             THEN /\ last' = [id |-> requests + 1, name |-> name, args |-> args,
                              stage |-> pre.stage,
                              result |-> ErrorResult(name, pre.message),
                              issued |-> <<>>, at |-> now,
                              before |-> RecordOf(failedAttempts, name)]
                  /\ calls' = calls
                  /\ config' = cfg1
                  /\ envFile' = envFile
             ELSE /\ last' = last
                  /\ calls' = [calls EXCEPT ![c] =
                                  [pc |-> start.pc, id |-> requests + 1, reg |-> reg,
                                   name |-> name, args |-> args, value |-> pre.value,
                                   issued |-> start.issued, outcome |-> start.outcome,
                                   logoUploadResult |-> Null]]
                  /\ config' = start.config
                  /\ envFile' = start.file
    /\ UNCHANGED <<variant, now, processEnv>>
    /\ UNCHANGED <<httpVars, managerVars, listVars>>

\* a list-tools request is answered
ListToolsRequest ==
    /\ listed' = ListTools(variant)
    /\ UNCHANGED <<servers, envDefined, serverLast>>
    /\ UNCHANGED toolVars
    /\ UNCHANGED <<httpVars, managerVars>>

\* the handler's promise settles: handleTool returns its value or runs its
\* catch block, and the request handler answers
Finish(c, threw, message, payload, issued) ==
    LET call == calls[c]
        rej == HandlerRejected(call.reg, variant, call.name, message,
                               MapOf(failedAttempts, call.reg), now)
    IN /\ failedAttempts' = IF threw THEN WithMap(failedAttempts, call.reg, rej.map)
                            ELSE failedAttempts
       /\ last' = [id |-> call.id, name |-> call.name, args |-> call.args,
                   stage |-> IF threw THEN "handler" ELSE "ok",
                   result |-> IF threw THEN ErrorResult(call.name, rej.message)
                              ELSE SuccessResult(payload),
                   issued |-> issued, at |-> now,
                   before |-> RecordOf(failedAttempts, call.name)]
       /\ calls' = [calls EXCEPT ![c] = IdleCall]
       /\ UNCHANGED <<variant, now, config, envFile, processEnv, requests>>
       /\ UNCHANGED <<httpVars, managerVars, listVars>>

\* a handler without a pending remote call settles
Settle(c) ==
    /\ calls[c].pc = "settle"
    /\ Finish(c, calls[c].outcome.threw, calls[c].outcome.message,
              calls[c].outcome.payload, calls[c].issued)

MSG_REMOTE == <<"GraphQL Error (Code: 500)">>

\* the response of a theme update: logoUpload only when the logo upload
\* left a result
ThemePayload(logoUploadResult) ==
    IF logoUploadResult = Null
    THEN [kind |-> "update_organization_theme", success |-> TRUE]
    ELSE [kind |-> "update_organization_theme", success |-> TRUE,
          logoUpload |-> logoUploadResult]

\* the remote part of a theme or PDF handler ends well
RemoteReturns(c) ==
    /\ calls[c].pc = "remote"
    /\ Finish(c, FALSE, <<>>,
              IF calls[c].name = "update_organization_theme"
              THEN ThemePayload(calls[c].logoUploadResult)
              ELSE [kind |-> calls[c].name],
              calls[c].issued)

\* the remote part of a theme or PDF handler throws
RemoteThrows(c) ==
    /\ calls[c].pc = "remote"
    /\ Finish(c, TRUE, HandlerPrefix(calls[c].name) \o MSG_REMOTE, Null,
              calls[c].issued)

\* time passes
Tick ==
    /\ now < MaxTicks * TickMs
    /\ now' = now + TickMs
    /\ UNCHANGED <<variant, failedAttempts, config, envFile, processEnv, calls,
                   requests, last>>
    /\ UNCHANGED <<httpVars, managerVars, listVars>>

(***************************************************************************)
(* The logo upload of a theme update: the steps inside the inner try, each *)
(* failure caught there, and then the organization update.                 *)
(***************************************************************************)
LogoAdvance(c, pc, step, result) ==
    /\ calls' = [calls EXCEPT ![c].pc = pc, ![c].issued = Append(@, step),
                              ![c].logoUploadResult = result]
    /\ UNCHANGED <<variant, now, failedAttempts, config, envFile, processEnv,
                   requests, last>>
    /\ UNCHANGED <<httpVars, managerVars, listVars>>

\* a logo failure that is not caught
LogoCaught_aborts(c) ==
    Finish(c, TRUE, HandlerPrefix(calls[c].name) \o MSG_REMOTE, Null, calls[c].issued)

\* `catch (logoError)`: a warning, then the organization update is sent
LogoCaught(c) == LogoAdvance(c, "remote", "updateOrganization", Null)

\* the upload URL answered: the full source reads the file and sends the
\* PUT, the trimmed source goes on to the file document
LogoUrlReturns(c) ==
    /\ calls[c].pc = "logoUrl"
    /\ IF variant = "full"
       THEN LogoAdvance(c, "logoTransfer", "PUT", Null)
       ELSE LogoAdvance(c, "logoDocument", "createFileDocument", Null)

LogoUrlThrows(c) ==
    /\ calls[c].pc = "logoUrl"
    /\ LogoCaught(c)

\* the upload URL answered, readFileSync throws (full source)
LogoReadFileThrows(c) ==
    /\ calls[c].pc = "logoUrl"
    /\ variant = "full"
    /\ LogoCaught(c)

\* the PUT answered with status
LogoTransferReturns(c, status) ==
    /\ calls[c].pc = "logoTransfer"
    /\ IF status >= 200 /\ status <= 299
       THEN LogoAdvance(c, "logoDocument", "createFileDocument", Null)
       ELSE LogoCaught(c)

\* fetch rejects
LogoTransferThrows(c) ==
    /\ calls[c].pc = "logoTransfer"
    /\ LogoCaught(c)

\* createFileDocument answered: logoUploadResult is set
LogoDocumentReturns(c) ==
    /\ calls[c].pc = "logoDocument"
    /\ LogoAdvance(c, "remote", "updateOrganization", [fileDocumentId |-> "doc"])

LogoDocumentThrows(c) ==
    /\ calls[c].pc = "logoDocument"
    /\ LogoCaught(c)

(***************************************************************************)
(* The upload workflow: ImageUploadTools.uploadFile after its first        *)
(* request, one action per way an awaited step can end.                    *)
(***************************************************************************)
STEP1_DONE == "1. Generated upload URL"
STEP2_DONE == "2. Uploaded file to S3"
STEP3_DONE == "3. Created file document"
STEP4_DONE == "4. Updated organization theme"
STEP4_SKIPPED == "4. Skipped theme update"

\* `args.updateTheme && args.objectType === 'ORGANIZATION' && args.type === 'LOGO'`
\* (config-tools.ts 398); the trimmed source has no step 4
ThemeUpdateDue(v, value) ==
    /\ v = "full"
    /\ Truthy(value["updateTheme"])
    /\ value["objectType"] = Word("ORGANIZATION")
    /\ value["type"] = Word("LOGO")

\* the `steps` array of the success payload (config-tools.ts 437-442,
\* unnamed/part_008 190-194)
StepsReported(v, value) ==
    IF v = "full"
    THEN <<STEP1_DONE, STEP2_DONE, STEP3_DONE,
           IF Truthy(value["updateTheme"]) THEN STEP4_DONE ELSE STEP4_SKIPPED>>
    ELSE <<STEP1_DONE, STEP2_DONE, STEP3_DONE>>

\* the success payload; themeUpdate is the organization-update result or null
UploadPayload(v, value, themeUpdate) ==
    [kind |-> "upload_file", success |-> TRUE, themeUpdate |-> themeUpdate,
     steps |-> StepsReported(v, value)]

UploadThrows(c, message) ==
    Finish(c, TRUE, HandlerPrefix("upload_file") \o message, Null, calls[c].issued)

Advance(c, pc, step) ==
    /\ calls' = [calls EXCEPT ![c].pc = pc, ![c].issued = Append(@, step)]
    /\ UNCHANGED <<variant, now, failedAttempts, config, envFile, processEnv,
                   requests, last>>
    /\ UNCHANGED <<httpVars, managerVars, listVars>>

\* step 1 answered and the file read: the PUT of step 2 is sent
Step1Returns(c) ==
    /\ calls[c].pc = "step1"
    /\ Advance(c, "step2", "PUT")

\* step 1 answered, readFileSync throws
ReadFileThrows(c) ==
    /\ calls[c].pc = "step1"
    /\ UploadThrows(c, <<"ENOENT: no such file or directory">>)

Step1Throws(c) ==
    /\ calls[c].pc = "step1"
    /\ UploadThrows(c, MSG_REMOTE)

HttpStatuses == {200, 403}
\* Response.statusText
StatusText(status) == IF status = 200 THEN "OK" ELSE "Forbidden"
\* Response.ok
IsOk(status) == status >= 200 /\ status <= 299

\* a step 2 that does not look at the status
Step2Returns_unchecked(c, status) ==
    /\ calls[c].pc = "step2"
    /\ Advance(c, "step3", "createFileDocument")

\* the PUT answered with status
Step2Returns(c, status) ==
    /\ calls[c].pc = "step2"
    /\ IF IsOk(status)
       THEN Advance(c, "step3", "createFileDocument")
       ELSE UploadThrows(c, <<"Failed to upload file to S3: ", ToString(status),
                              " ", StatusText(status)>>)

\* fetch rejects
Step2Throws(c) ==
    /\ calls[c].pc = "step2"
    /\ UploadThrows(c, <<"fetch failed">>)

\* createFileDocument answered
Step3Returns(c) ==
    /\ calls[c].pc = "step3"
    /\ IF ThemeUpdateDue(variant, calls[c].value)
       THEN Advance(c, "step4", "updateOrganization")
       ELSE Finish(c, FALSE, <<>>, UploadPayload(variant, calls[c].value, Null),
                   calls[c].issued)

Step3Throws(c) ==
    /\ calls[c].pc = "step3"
    /\ UploadThrows(c, MSG_REMOTE)

\* updateOrganization answered
Step4Returns(c) ==
    /\ calls[c].pc = "step4"
    /\ Finish(c, FALSE, <<>>,
              UploadPayload(variant, calls[c].value, [organization |-> "updated"]),
              calls[c].issued)

\* a step 4 whose failure is swallowed
Step4Throws_recovered(c) ==
    /\ calls[c].pc = "step4"
    /\ Finish(c, FALSE, <<>>, UploadPayload(variant, calls[c].value, Null),
              calls[c].issued)

Step4Throws(c) ==
    /\ calls[c].pc = "step4"
    /\ UploadThrows(c, MSG_REMOTE)

(***************************************************************************)
(* Server instances.  index.ts makes one with createWealthPortalServer for *)
(* stdio and hands the same factory to MCPHttpServer, which calls it for   *)
(* every GET /mcp; unnamed/part_002 is the class made once for stdio.      *)
(* An instance owns its ConfigManager (and so its cache), its GraphQL      *)
(* client with the headers given at construction, and its registries; the  *)
(* process environment and .env.local are shared by all of them.           *)
(***************************************************************************)
ServerIds == 1..MaxServers
EnvKeys == {"API_KEY", "TIMEOUT", "RETRIES", "ORGANIZATION_ID", "USER_ID"}

\* dotenv's config({ path }) in the ConfigManager constructor: every key of
\* the file that process.env does not hold yet is set from the file; a
\* missing file changes nothing
Dotenv(env, defined, file) ==
    IF file = Null THEN [env |-> env, defined |-> defined]
    ELSE [env |-> [k \in EnvKeys |->
                      IF k \in defined \/ k \notin DOMAIN file THEN env[k]
                      ELSE file[k]],
          defined |-> defined \cup (DOMAIN file \cap EnvKeys)]

\* ConfigSchema.parse(c) of server-core (unnamed/part_006 22-29): the issues
ServerConfigIssues(c) ==
    Issue("graphqlEndpoint", IsUrl(c.graphqlEndpoint))
    \o Issue("apiKey", IsString(c.apiKey) /\ Truthy(c.apiKey))
    \o Issue("timeout", c.timeout.t = "undef"
                          \/ (c.timeout.t = "num" /\ c.timeout.n >= 1000
                                /\ c.timeout.n <= 30000))
    \o Issue("retries", c.retries.t = "undef"
                          \/ (c.retries.t = "num" /\ c.retries.n >= 0
                                /\ c.retries.n <= 5))
    \o Issue("organizationId", c.organizationId.t = "undef" \/ IsString(c.organizationId))
    \o Issue("userId", c.userId.t = "undef" \/ IsString(c.userId))

NoServer ==
    [state |-> "none", entry |-> "", config |-> Null, clientKey |-> Undef,
     failedAttempts |-> [r \in {"graphql", "config"} |-> [x \in {} |-> Undef]]]

\* a running instance: its ConfigManager's cache holds the configuration
\* getConfig() loaded, its GraphQL client the 'Authorization-API' header
Running(entry, c) ==
    [NoServer EXCEPT !.state = "running", !.entry = entry, !.config = c,
                     !.clientKey = c.apiKey]

\* createWealthPortalServer() (unnamed/part_006 124-146)
createWealthPortalServer(env, defined, file) ==
    LET d == Dotenv(env, defined, file)
        c == LoadFromEnv(d.env)
        issues == ServerConfigIssues(c)
    IN IF issues # <<>>
       THEN [threw |-> TRUE, message |-> <<"ZodError: ">> \o issues,
             env |-> d.env, defined |-> d.defined,
             server |-> [NoServer EXCEPT !.state = "failed",
                                         !.entry = "createWealthPortalServer"]]
       ELSE [threw |-> FALSE, message |-> <<>>, env |-> d.env, defined |-> d.defined,
             server |-> Running("createWealthPortalServer", c)]

\* new WealthPortalMCPServer() (unnamed/part_002 40-70): no validation
WealthPortalMCPServer(env, defined, file) ==
    LET d == Dotenv(env, defined, file)
    IN [threw |-> FALSE, message |-> <<>>, env |-> d.env, defined |-> d.defined,
        server |-> Running("WealthPortalMCPServer", LoadFromEnv(d.env))]

Entries == {"createWealthPortalServer", "WealthPortalMCPServer"}

NoServerCall ==
    [seq |-> 0, server |-> 0, name |-> "", args |-> Undef, stage |-> "none",
     result |-> SuccessResult(Null), header |-> Undef]

DefinedKeys(env) == {k \in EnvKeys : env[k] # <<>>}

ServersIdle ==
    /\ servers = [i \in ServerIds |-> NoServer]
    /\ envDefined = DefinedKeys(processEnv)
    /\ serverLast = NoServerCall

\* instance i is made: by the factory (for stdio, or by GET /mcp for a new
\* session) or, once, as the class of unnamed/part_002.  A factory that
\* throws leaves no instance: GET /mcp answers 500, start() exits.
CreateServer(i, entry) ==
    /\ servers[i].state = "none"
    /\ \A j \in ServerIds : j < i => servers[j].state # "none"
    /\ \A j \in ServerIds : servers[j].state # "none" => servers[j].entry = entry
    /\ entry = "WealthPortalMCPServer" => i = 1
    /\ LET r == IF entry = "createWealthPortalServer"
                THEN createWealthPortalServer(processEnv, envDefined, envFile)
                ELSE WealthPortalMCPServer(processEnv, envDefined, envFile)
       IN /\ servers' = [servers EXCEPT ![i] = r.server]
          /\ processEnv' = r.env
          /\ envDefined' = r.defined
    /\ UNCHANGED <<variant, now, failedAttempts, config, envFile, calls, requests,
                   last, listed, serverLast>>
    /\ UNCHANGED <<httpVars, managerVars>>

\* the 'Authorization-API' header of a request of the instance's GraphQL
\* client: the headers object given to the constructor
HeaderOf(srv, env) == srv.clientKey

\* a call-tool request on instance i, from the request handler to the
\* response; the remote service answers a request that is sent
ServerCall(i, name, args, writeOk) ==
    LET srv == servers[i]
        reg == RouteOf(variant, name)
        configured == isConfigured(srv.config, processEnv)
        cfg1 == IF ChecksConfiguration(reg) THEN getConfig(srv.config, processEnv)
                ELSE srv.config
        pre == HandleTool(reg, variant, name, args, MapOf(srv.failedAttempts, reg),
                          configured, now)
        start == HandlerStart(reg, name, pre.value, cfg1, processEnv, envFile,
                              writeOk)
        failed == start.pc = "settle" /\ start.outcome.threw
        rej == HandlerRejected(reg, variant, name, start.outcome.message, pre.map, now)
        response(stage, result, header) ==
            [seq |-> serverLast.seq + 1, server |-> i, name |-> name, args |-> args,
             stage |-> stage, result |-> result, header |-> header]
    IN /\ srv.state = "running"
       /\ IF pre.threw
          THEN /\ servers' = [servers EXCEPT
                                ![i].failedAttempts = WithMap(@, reg, pre.map),
                                ![i].config = cfg1]
               /\ envFile' = envFile
               /\ serverLast' = response(pre.stage, ErrorResult(name, pre.message), Undef)
          ELSE /\ servers' = [servers EXCEPT
                                ![i].failedAttempts =
                                    WithMap(@, reg, IF failed THEN rej.map ELSE pre.map),
                                ![i].config = start.config]
               /\ envFile' = start.file
               /\ serverLast' =
                     IF failed
                     THEN response("handler", ErrorResult(name, rej.message), Undef)
                     ELSE IF start.pc = "settle"
                     THEN response("ok", SuccessResult(start.outcome.payload), Undef)
                     ELSE response("ok", SuccessResult([kind |-> name]),
                                   HeaderOf(srv, processEnv))
       /\ UNCHANGED <<variant, now, failedAttempts, config, processEnv, calls,
                      requests, last, listed, envDefined>>
       /\ UNCHANGED <<httpVars, managerVars>>

(***************************************************************************)
(* MCPHttpServer (src/_archive/nodejs-mcp/src/http-server.ts): the session *)
(* table, the GET /mcp and POST /mcp routes, the close listeners, the      *)
(* heartbeat interval and stop().                                          *)
(***************************************************************************)
ConnIds == 1..MaxConns

\* transport.sessionId: each SSEServerTransport draws its own identifier
SessionIdOf(k) == <<"s", ToString(k)>>

\* a connection before its GET /mcp arrives
NoConn ==
    [phase |-> "none", channel |-> "none", listeners |-> FALSE,
     heartbeat |-> "none", transport |-> "none", server |-> "none",
     lateWrite |-> FALSE, closing |-> FALSE]

\* Map.get, Map.set and Map.delete on the entries in insertion order
SessionKeys(tbl) == {tbl[i].sid : i \in 1..Len(tbl)}
\* a lookup that falls back on the oldest session
SessionGet_fallback(tbl, sid) ==
    IF sid \in SessionKeys(tbl)
    THEN tbl[CHOOSE i \in 1..Len(tbl) : tbl[i].sid = sid]
    ELSE IF tbl # <<>> THEN tbl[1] ELSE Undef
SessionGet(tbl, sid) ==
    IF sid \in SessionKeys(tbl)
    THEN tbl[CHOOSE i \in 1..Len(tbl) : tbl[i].sid = sid]
    ELSE Undef
SessionSet(tbl, sid, k) ==
    IF sid \in SessionKeys(tbl)
    THEN [i \in 1..Len(tbl) |-> IF tbl[i].sid = sid THEN [sid |-> sid, conn |-> k]
                                 ELSE tbl[i]]
    ELSE Append(tbl, [sid |-> sid, conn |-> k])
SessionDelete(tbl, sid) == SelectSeq(tbl, LAMBDA e : e.sid # sid)

NoHttpResponse ==
    [seq |-> 0, status |-> 0, error |-> "", forwarded |-> Undef, query |-> Undef]
\* a 'close' event is being emitted: its first listener returned at its
\* await, its second has not run yet; nothing else runs in between
Emitting == \E k \in ConnIds : conns[k].closing

HttpIdle ==
    /\ conns = [k \in ConnIds |-> NoConn]
    /\ sessions = <<>>
    /\ listener = [state |-> "listening", current |-> Undef, resolved |-> FALSE]
    /\ httpLast = NoHttpResponse

\* GET /mcp arrives on connection k: the transport and the server are made
\* and server.connect(transport) is awaited (lines 43-52); a factory that
\* throws is caught like a connect that rejects (lines 93-98)
GetMcp(k) ==
    /\ ~Emitting
    /\ listener.state # "closed"
    /\ conns[k].phase = "none"
    /\ \A j \in ConnIds : j < k => conns[j].phase # "none"
    /\ LET made == createWealthPortalServer(processEnv, envDefined, envFile)
       IN /\ conns' = [conns EXCEPT ![k] =
                          IF made.threw
                          THEN [NoConn EXCEPT !.phase = "failed",
                                              !.channel = "open",
                                              !.transport = "created"]
                          ELSE [NoConn EXCEPT !.phase = "connecting",
                                              !.channel = "open",
                                              !.transport = "created",
                                              !.server = "created"]]
          /\ processEnv' = made.env
          /\ envDefined' = made.defined
    /\ UNCHANGED <<sessions, listener, httpLast>>
    /\ UNCHANGED <<variant, now, failedAttempts, config, envFile, calls, requests,
                   last, listed, servers, serverLast>>
    /\ UNCHANGED managerVars

\* server.connect resolves: the session is registered, the close listeners
\* are added and the heartbeat interval is started (lines 55-92)
ConnectReturns(k) ==
    /\ ~Emitting
    /\ conns[k].phase = "connecting"
    /\ sessions' = SessionSet(sessions, SessionIdOf(k), k)
    /\ conns' = [conns EXCEPT ![k].phase = "established",
                              ![k].transport = "started",
                              ![k].server = "connected",
                              ![k].listeners = TRUE,
                              ![k].heartbeat = "active"]
    /\ UNCHANGED <<listener, httpLast>>
    /\ UNCHANGED <<toolVars, managerVars, listVars>>

\* a failed establishment that leaves its entry and its timer behind
ConnectThrows_registers(k) ==
    /\ ~Emitting
    /\ conns[k].phase = "connecting"
    /\ sessions' = SessionSet(sessions, SessionIdOf(k), k)
    /\ conns' = [conns EXCEPT ![k].phase = "failed", ![k].heartbeat = "active"]
    /\ UNCHANGED <<listener, httpLast>>
    /\ UNCHANGED <<toolVars, managerVars, listVars>>

\* server.connect rejects: the catch answers 500 (lines 93-98)
ConnectThrows(k) ==
    /\ ~Emitting
    /\ conns[k].phase = "connecting"
    /\ conns' = [conns EXCEPT ![k].phase = "failed"]
    /\ UNCHANGED <<sessions, listener, httpLast>>
    /\ UNCHANGED <<toolVars, managerVars, listVars>>

\* a close event whose first effect is clearInterval
ChannelClose_timerFirst(k) ==
    /\ ~Emitting
    /\ conns[k].channel = "open"
    /\ IF conns[k].listeners
       THEN /\ sessions' = sessions
            /\ conns' = [conns EXCEPT ![k].channel = "closed",
                                      ![k].heartbeat = "cleared",
                                      ![k].closing = TRUE]
       ELSE /\ sessions' = sessions
            /\ conns' = [conns EXCEPT ![k].channel = "closed"]
    /\ UNCHANGED <<listener, httpLast>>
    /\ UNCHANGED <<toolVars, managerVars, listVars>>

\* the 'close' event of the response of connection k is emitted. With the
\* listeners registered, the first one runs (lines 58-71): it deletes the
\* session and calls transport.close() and server.close(), and returns at
\* its await; without them the event has no listener
ChannelClose(k) ==
    /\ ~Emitting
    /\ conns[k].channel = "open"
    /\ IF conns[k].listeners
       THEN /\ sessions' = SessionDelete(sessions, SessionIdOf(k))
            /\ conns' = [conns EXCEPT ![k].channel = "closed",
                                      ![k].transport = "closed",
                                      ![k].server = "closed",
                                      ![k].closing = TRUE]
       ELSE /\ sessions' = sessions
            /\ conns' = [conns EXCEPT ![k].channel = "closed"]
    /\ UNCHANGED <<listener, httpLast>>
    /\ UNCHANGED <<toolVars, managerVars, listVars>>

\* the second listener of the same emission (lines 87-89): clearInterval
CloseClearsHeartbeat(k) ==
    /\ conns[k].closing
    /\ conns' = [conns EXCEPT ![k].heartbeat = "cleared",
                              ![k].closing = FALSE]
    /\ UNCHANGED <<sessions, listener, httpLast>>
    /\ UNCHANGED <<toolVars, managerVars, listVars>>

\* the interval fires (lines 74-85): headers were sent by transport.start(),
\* so the heartbeat is written; a write that throws clears the interval
HeartbeatTick(k, writeThrows) ==
    /\ ~Emitting
    /\ conns[k].heartbeat = "active"
    /\ writeThrows => conns[k].channel = "closed"
    /\ conns' = [conns EXCEPT ![k].heartbeat = IF writeThrows THEN "cleared" ELSE @,
                              ![k].lateWrite = @ \/ conns[k].channel = "closed"]
    /\ UNCHANGED <<sessions, listener, httpLast>>
    /\ UNCHANGED <<toolVars, managerVars, listVars>>

MSG_MISSING_SESSION == "Missing sessionId query parameter"
MSG_SESSION_NOT_FOUND == "Session not found or expired"
MSG_PROCESS_FAILED == "Failed to process message"

\* POST /mcp with req.query.sessionId = query (lines 101-127); handled is
\* whether transport.handleMessage resolves
PostMcp(query, handled) ==
    LET sessionId == IF IsString(query) THEN query ELSE Undef
        session == IF Truthy(sessionId) THEN SessionGet(sessions, sessionId.s)
                   ELSE Undef
    IN /\ ~Emitting
       /\ httpLast' =
             IF ~Truthy(sessionId)
             THEN [seq |-> httpLast.seq + 1, status |-> 400, error |-> MSG_MISSING_SESSION,
                   forwarded |-> Undef, query |-> query]
             ELSE IF session = Undef
             THEN [seq |-> httpLast.seq + 1, status |-> 404, error |-> MSG_SESSION_NOT_FOUND,
                   forwarded |-> Undef, query |-> query]
             ELSE IF handled
             THEN [seq |-> httpLast.seq + 1, status |-> 202, error |-> "", forwarded |-> session,
                   query |-> query]
             ELSE [seq |-> httpLast.seq + 1, status |-> 500, error |-> MSG_PROCESS_FAILED,
                   forwarded |-> session, query |-> query]
       /\ UNCHANGED <<conns, sessions, listener>>
       /\ UNCHANGED <<toolVars, managerVars, listVars>>

\* stop() is called: the loop over sessions.entries() begins (lines 146-147)
Stop ==
    /\ ~Emitting
    /\ listener.state = "listening"
    /\ listener' = [state |-> "stopping", current |-> Undef, resolved |-> FALSE]
    /\ UNCHANGED <<conns, sessions, httpLast>>
    /\ UNCHANGED <<toolVars, managerVars, listVars>>

\* the loop takes the next entry and closes its transport and server
\* (lines 147-151); the entries before it were deleted when visited
StopCloses ==
    /\ ~Emitting
    /\ listener.state = "stopping"
    /\ listener.current = Undef
    /\ sessions # <<>>
    /\ listener' = [listener EXCEPT !.current = sessions[1]]
    /\ conns' = [conns EXCEPT ![sessions[1].conn].transport = "closed",
                              ![sessions[1].conn].server = "closed"]
    /\ UNCHANGED <<sessions, httpLast>>
    /\ UNCHANGED <<toolVars, managerVars, listVars>>

\* the closes settled: the entry is deleted (line 158)
StopDeletes ==
    /\ ~Emitting
    /\ listener.state = "stopping"
    /\ listener.current # Undef
    /\ sessions' = SessionDelete(sessions, listener.current.sid)
    /\ listener' = [listener EXCEPT !.current = Undef]
    /\ UNCHANGED <<conns, httpLast>>
    /\ UNCHANGED <<toolVars, managerVars, listVars>>

\* the loop is over: this.server.close(callback) stops the listener from
\* accepting connections (lines 161-162)
StopFinishes ==
    /\ ~Emitting
    /\ listener.state = "stopping"
    /\ listener.current = Undef
    /\ sessions = <<>>
    /\ listener' = [state |-> "closed", current |-> Undef, resolved |-> FALSE]
    /\ UNCHANGED <<conns, sessions, httpLast>>
    /\ UNCHANGED <<toolVars, managerVars, listVars>>

\* the callback of server.close runs once every connection has ended: the
\* promise stop() returned is resolved (lines 162-168)
StopResolves ==
    /\ ~Emitting
    /\ listener.state = "closed"
    /\ ~listener.resolved
    /\ \A k \in ConnIds : conns[k].channel # "open"
    /\ listener' = [listener EXCEPT !.resolved = TRUE]
    /\ UNCHANGED <<conns, sessions, httpLast>>
    /\ UNCHANGED <<toolVars, managerVars, listVars>>

(***************************************************************************)
(* Inputs.                                                                 *)
(***************************************************************************)
KeyLong == <<"s", "k", "-", "1", "2", "3", "4">>

Env(key, org, usr) ==
    [API_KEY |-> key, TIMEOUT |-> <<>>, RETRIES |-> <<>>, ORGANIZATION_ID |-> org,
     USER_ID |-> usr]
EnvEmpty == Env(<<>>, <<>>, <<>>)
EnvMinimal == Env(KeyLong, <<>>, <<>>)
EnvFull == Env(KeyLong, IdOrg, IdUser)

With(f, v) == Obj((f :> v) @@ EmptyObj)
With2(f, v, g, w) == Obj((f :> v) @@ (g :> w) @@ EmptyObj)

\* the arguments of the failure-tracker specification
TrackerNames == {"config_set", "config_get", "update_organization_theme"}
\* {} is valid for config_set and the theme update; timeout 500 is invalid
\* for config_set, missing arguments for config_get, an empty organizationId
\* for the theme update
TrackerArgs(name) ==
    CASE name = "config_set" -> {Obj(EmptyObj), With("timeout", Num(500))}
      [] name = "config_get" -> {Undef}
      [] OTHER -> {Obj(EmptyObj), With("organizationId", Str(<<>>))}

\* only the handlers that write the .env file can meet a write failure
WriteOutcomes(name) ==
    IF name \in {"config_set", "config_reset"} THEN BOOLEAN ELSE {TRUE}

Init ==
    /\ variant = "full"
    /\ now = 0
    /\ failedAttempts = [r \in TrackerRegistries |-> EmptyMap]
    /\ config = Null
    /\ envFile = Null
    /\ processEnv = EnvFull
    /\ calls = [c \in Slots |-> IdleCall]
    /\ requests = 0
    /\ last = NoResponse
    /\ managerLast = NoManagerCall
    /\ listed = Null
    /\ ServersIdle
    /\ HttpIdle

Next ==
    \/ /\ requests < MaxRequests
       /\ \E c \in Slots, name \in TrackerNames :
             \E args \in TrackerArgs(name), writeOk \in WriteOutcomes(name) :
                CallToolRequest(c, name, args, writeOk)
    \/ \E c \in Slots : Settle(c)
    \/ \E c \in Slots : RemoteReturns(c)
    \/ \E c \in Slots : RemoteThrows(c)
    \/ Tick

Spec == Init /\ [][Next]_vars

(***************************************************************************)
(* The dispatcher on every operation name and on well-formed and           *)
(* ill-formed arguments, in both builds, with the environment empty, with   *)
(* the API key alone and complete.                                         *)
(***************************************************************************)
UploadSteps(c) ==
    \/ Step1Returns(c)
    \/ ReadFileThrows(c)
    \/ Step1Throws(c)
    \/ \E status \in HttpStatuses : Step2Returns(c, status)
    \/ Step2Throws(c)
    \/ Step3Returns(c)
    \/ Step3Throws(c)
    \/ Step4Returns(c)
    \/ Step4Throws(c)

DispatchNames ==
    Range(GraphQLToolNames("full")) \cup Range(PDFToolNames)
        \cup Range(ImageUploadToolNames) \cup Range(ConfigToolNames)
        \cup {"no_such_tool"}

\* no arguments and {} for every name, then per schema a valid object, a
\* placeholder identifier and an identifier that is not a string
DispatchArgs(name) ==
    {Undef, Obj(EmptyObj)} \cup
    CASE name \in {"update_organization_theme", "list_organization_logos",
                   "verify_organization_logo"} ->
            {With("organizationId", Str(IdOrg)),
             With("organizationId", Str(IdYourOrgHere)),
             With("organizationId", Num(7))}
      [] name = "get_logo_download_url" ->
            {With("fileDocumentId", Str(IdOrg)),
             With("organizationId", Str(IdOrgHere)),
             With2("fileDocumentId", Str(IdOrg), "organizationId", Str(IdPlaceholder))}
      [] name \in Range(PDFToolNames) -> {With("filePath", Str(PathPdf))}
      [] name = "upload_file" ->
            {With("filePath", Str(PathPdf)),
             With2("filePath", Str(PathPdf), "updateTheme", Bool(TRUE)),
             With2("filePath", Str(PathPdf), "objectId", Str(IdOrgHere)),
             With2("filePath", Str(PathPdf), "userId", Num(7)),
             With2("filePath", Str(PathPdf), "userId", Str(IdPlaceholder)),
             With("objectId", Str(IdOrgHere)),
             With2("objectId", Num(7), "userId", Str(IdPlaceholder))}
      [] name = "config_set" ->
            {With("apiKey", Str(KeyLong)), With("timeout", Num(500))}
      [] OTHER -> {}

InitDispatch ==
    /\ variant \in Variants
    /\ now = 0
    /\ failedAttempts = [r \in TrackerRegistries |-> EmptyMap]
    /\ config = Null
    /\ envFile = Null
    /\ processEnv \in {EnvEmpty, EnvMinimal, EnvFull}
    /\ calls = [c \in Slots |-> IdleCall]
    /\ requests = 0
    /\ last = NoResponse
    /\ managerLast = NoManagerCall
    /\ listed = Null
    /\ ServersIdle
    /\ HttpIdle

NextDispatch ==
    \/ /\ requests < MaxDispatchRequests
       /\ \E c \in Slots, name \in DispatchNames :
             \E args \in DispatchArgs(name), writeOk \in WriteOutcomes(name) :
                CallToolRequest(c, name, args, writeOk)
    \/ \E c \in Slots : Settle(c)
    \/ \E c \in Slots : RemoteReturns(c)
    \/ \E c \in Slots : RemoteThrows(c)
    \/ \E c \in Slots : UploadSteps(c)
    \/ ListToolsRequest

SpecDispatch == InitDispatch /\ [][NextDispatch]_vars

(***************************************************************************)
(* The upload workflow on valid upload_file calls: every owner type, asset *)
(* type and updateTheme flag, in both builds, with and without the default *)
(* identifiers configured.                                                 *)
(***************************************************************************)
OptionalWords(set) == {Undef} \cup {Word(w) : w \in set}

UploadArgs ==
    {Obj(("objectType" :> ot) @@ ("type" :> ty) @@ ("updateTheme" :> ut)
         @@ ("filePath" :> Str(PathPdf)) @@ EmptyObj) :
        ot \in OptionalWords({"ORGANIZATION", "USER"}),
        ty \in OptionalWords({"LOGO", "AVATAR"}),
        ut \in {Undef, Bool(TRUE), Bool(FALSE)}}

InitUpload ==
    /\ variant \in Variants
    /\ now = 0
    /\ failedAttempts = [r \in TrackerRegistries |-> EmptyMap]
    /\ config = Null
    /\ envFile = Null
    /\ processEnv \in {EnvMinimal, EnvFull}
    /\ calls = [c \in Slots |-> IdleCall]
    /\ requests = 0
    /\ last = NoResponse
    /\ managerLast = NoManagerCall
    /\ listed = Null
    /\ ServersIdle
    /\ HttpIdle

NextUpload ==
    \/ /\ requests < MaxUploadRequests
       /\ \E c \in Slots, args \in UploadArgs :
             CallToolRequest(c, "upload_file", args, TRUE)
    \/ \E c \in Slots : Settle(c)
    \/ \E c \in Slots : UploadSteps(c)

SpecUpload == InitUpload /\ [][NextUpload]_vars

(***************************************************************************)
(* The HTTP server alone: connections, closes, heartbeats, POSTs naming    *)
(* registered, unregistered, empty and missing session ids, and stop().    *)
(***************************************************************************)
\* req.query.sessionId: absent, empty, the id of a connection, an id no
\* transport ever drew
PostQueries ==
    {Undef, Str(<<>>), Str(<<"s", "0">>)} \cup {Str(SessionIdOf(k)) : k \in ConnIds}

InitHttp ==
    /\ variant = "trimmed"
    /\ now = 0
    /\ failedAttempts = [r \in TrackerRegistries |-> EmptyMap]
    /\ config = Null
    /\ envFile = Null
    /\ processEnv \in {EnvFull, EnvEmpty}
    /\ calls = [c \in Slots |-> IdleCall]
    /\ requests = 0
    /\ last = NoResponse
    /\ managerLast = NoManagerCall
    /\ listed = Null
    /\ ServersIdle
    /\ HttpIdle

NextHttp ==
    \/ \E k \in ConnIds : GetMcp(k)
    \/ \E k \in ConnIds : ConnectReturns(k)
    \/ \E k \in ConnIds : ConnectThrows(k)
    \/ \E k \in ConnIds : ChannelClose(k)
    \/ \E k \in ConnIds : CloseClearsHeartbeat(k)
    \/ \E k \in ConnIds, writeThrows \in BOOLEAN : HeartbeatTick(k, writeThrows)
    \/ /\ httpLast.seq < MaxPosts
       /\ \E query \in PostQueries, handled \in BOOLEAN : PostMcp(query, handled)
    \/ Stop
    \/ StopCloses
    \/ StopDeletes
    \/ StopFinishes
    \/ StopResolves

SpecHttp == InitHttp /\ [][NextHttp]_vars

\* what the event loop guarantees: an awaited connect settles, the second
\* listener of an emitted close runs, an armed interval fires, and a stop()
\* that began runs on.  Nothing obliges a channel to close, stop() to be
\* called, or a write on a closed channel to throw.
FairHttp ==
    /\ \A k \in ConnIds : WF_vars(ConnectReturns(k) \/ ConnectThrows(k))
    /\ \A k \in ConnIds : WF_vars(CloseClearsHeartbeat(k))
    /\ \A k \in ConnIds : WF_vars(HeartbeatTick(k, FALSE))
    /\ WF_vars(StopCloses \/ StopDeletes \/ StopFinishes \/ StopResolves)

SpecHttpLive == SpecHttp /\ FairHttp

(***************************************************************************)
(* The ConfigManager alone: its methods called directly, and config_get,   *)
(* over environments with long, short and no API key and with a TIMEOUT    *)
(* that is not a number.                                                   *)
(***************************************************************************)
Key3 == <<"a", "b", "c">>
Key4 == <<"a", "b", "c", "d">>
Key5 == <<"a", "b", "c", "d", "e">>
ConfigEnvs ==
    {EnvEmpty, EnvFull, Env(Key3, <<>>, <<>>), Env(Key4, IdOrg, <<>>),
     Env(Key5, <<>>, IdUser),
     [EnvFull EXCEPT !.TIMEOUT = <<"5", "0", "0", "0">>],
     [EnvMinimal EXCEPT !.TIMEOUT = <<"f", "a", "s", "t">>]}

\* the Partial<Config> objects passed to updateConfig
EmptyUpdates == [x \in {} |-> Undef]
EndpointValues ==
    {Word(HARDCODED_GRAPHQL_ENDPOINT), Word(OTHER_ENDPOINT), Word(""),
     Word("not a url"), Undef}
UpdateInputs ==
    {EmptyUpdates}
    \cup {("graphqlEndpoint" :> v) : v \in EndpointValues}
    \cup {("apiKey" :> Str(Key4)), ("timeout" :> Num(5000)),
          ("timeout" :> Str(<<"5">>)), ("organizationId" :> Str(IdOrg)),
          ("userId" :> Undef)}

InitConfig ==
    /\ variant = "trimmed"
    /\ now = 0
    /\ failedAttempts = [r \in TrackerRegistries |-> EmptyMap]
    /\ config = Null
    /\ envFile = Null
    /\ processEnv \in ConfigEnvs
    /\ calls = [c \in Slots |-> IdleCall]
    /\ requests = 0
    /\ last = NoResponse
    /\ managerLast = NoManagerCall
    /\ listed = Null
    /\ ServersIdle
    /\ HttpIdle

ConfigCallsLeft == managerLast.seq + requests < MaxConfigCalls

NextConfig ==
    \/ ConfigCallsLeft /\ GetConfigCall
    \/ /\ ConfigCallsLeft
       /\ \E updates \in UpdateInputs, writeOk \in BOOLEAN :
             UpdateConfigCall(updates, writeOk)
    \/ /\ ConfigCallsLeft
       /\ \E writeOk \in BOOLEAN : ResetConfigCall(writeOk)
    \/ ConfigCallsLeft /\ CallToolRequest(1, "config_get", Obj(EmptyObj), TRUE)
    \/ Settle(1)

SpecConfig == InitConfig /\ [][NextConfig]_vars

(***************************************************************************)
(* One operation called over and over, each call answered before the next  *)
(* is made: streaks long enough for the error history to overflow, with    *)
(* time passing between the calls.                                         *)
(***************************************************************************)
\* a timeout below the minimum and an API key that is not a string fail the
\* schema with different messages; {} passes it, and the handler then fails
\* when the .env file cannot be written
StreakArgs ==
    {With("timeout", Num(500)), With("apiKey", Num(7)), Obj(EmptyObj)}

InitStreak ==
    /\ variant = "full"
    /\ now = 0
    /\ failedAttempts = [r \in TrackerRegistries |-> EmptyMap]
    /\ config = Null
    /\ envFile = Null
    /\ processEnv = EnvFull
    /\ calls = [c \in {1} |-> IdleCall]
    /\ requests = 0
    /\ last = NoResponse
    /\ managerLast = NoManagerCall
    /\ listed = Null
    /\ ServersIdle
    /\ HttpIdle

NextStreak ==
    \/ /\ requests < MaxStreakRequests
       /\ \E args \in StreakArgs, writeOk \in BOOLEAN :
             CallToolRequest(1, "config_set", args, writeOk)
    \/ Settle(1)
    \/ Tick

SpecStreak == InitStreak /\ [][NextStreak]_vars


(***************************************************************************)
(* One operation of each registry called again and again with arguments    *)
(* its handleTool rejects, in both builds, with and without a              *)
(* configuration.                                                          *)
(***************************************************************************)
RepeatNames == {"update_organization_theme", "view_pdf", "upload_file", "config_set"}
\* arguments that fail the schema (an empty organizationId, a missing
\* filePath, a timeout below the minimum) and placeholder identifiers
RepeatArgs(name) ==
    CASE name = "update_organization_theme" ->
            {With("organizationId", Str(<<>>)),
             With("organizationId", Str(IdYourOrgHere))}
      [] name = "view_pdf" -> {Obj(EmptyObj)}
      [] name = "upload_file" -> {Obj(EmptyObj), With("objectId", Str(IdOrgHere))}
      [] OTHER -> {With("timeout", Num(500))}

InitRepeat ==
    /\ variant \in Variants
    /\ now = 0
    /\ failedAttempts = [r \in TrackerRegistries |-> EmptyMap]
    /\ config = Null
    /\ envFile = Null
    /\ processEnv \in {EnvEmpty, EnvFull}
    /\ calls = [c \in {1} |-> IdleCall]
    /\ requests = 0
    /\ last = NoResponse
    /\ managerLast = NoManagerCall
    /\ listed = Null
    /\ ServersIdle
    /\ HttpIdle

NextRepeat ==
    /\ requests < MaxRepeatRequests
    /\ \E name \in RepeatNames :
          \E args \in RepeatArgs(name) : CallToolRequest(1, name, args, TRUE)

SpecRepeat == InitRepeat /\ [][NextRepeat]_vars

(***************************************************************************)
(* Calls of one operation in flight together: the theme update of the      *)
(* full build, whose handler waits for the remote service, called with     *)
(* valid and with invalid arguments while earlier calls are still waiting. *)
(***************************************************************************)
RaceArgs == {Obj(EmptyObj), With("organizationId", Str(<<>>))}

InitRace ==
    /\ variant = "full"
    /\ now = 0
    /\ failedAttempts = [r \in TrackerRegistries |-> EmptyMap]
    /\ config = Null
    /\ envFile = Null
    /\ processEnv = EnvFull
    /\ calls = [c \in {1, 2, 3} |-> IdleCall]
    /\ requests = 0
    /\ last = NoResponse
    /\ managerLast = NoManagerCall
    /\ listed = Null
    /\ ServersIdle
    /\ HttpIdle

NextRace ==
    \/ /\ requests < MaxRaceRequests
       /\ \E c \in {1, 2, 3}, args \in RaceArgs :
             CallToolRequest(c, "update_organization_theme", args, TRUE)
    \/ \E c \in {1, 2, 3} : RemoteReturns(c)
    \/ \E c \in {1, 2, 3} : RemoteThrows(c)
    \/ Tick

SpecRace == InitRace /\ [][NextRace]_vars

(***************************************************************************)
(* Theme updates with and without a logoFile, in both builds, with the     *)
(* identity token configured and the default identifiers set or not.       *)
(***************************************************************************)
LogoPng == <<"l", ".", "p", "n", "g">>

ThemeArgs ==
    {With("organizationId", Str(IdOrg)),
     With("logoFile", LogoFile(Str(LogoPng), Str(LogoPng), Str(IdUser))),
     With2("organizationId", Str(IdOrg),
           "logoFile", LogoFile(Str(LogoPng), Str(LogoPng), Str(IdUser))),
     With2("organizationId", Str(IdOrg),
           "logoFile", LogoFile(Str(LogoPng), Undef, Str(IdUser))),
     With2("organizationId", Str(IdOrg),
           "logoFile", LogoFile(Str(LogoPng), Str(LogoPng), Str(<<>>)))}

InitTheme ==
    /\ variant \in Variants
    /\ now = 0
    /\ failedAttempts = [r \in TrackerRegistries |-> EmptyMap]
    /\ config = Null
    /\ envFile = Null
    /\ processEnv \in {EnvMinimal, EnvFull}
    /\ calls = [c \in {1} |-> IdleCall]
    /\ requests = 0
    /\ last = NoResponse
    /\ managerLast = NoManagerCall
    /\ listed = Null
    /\ ServersIdle
    /\ HttpIdle

LogoSteps(c) ==
    \/ LogoUrlReturns(c)
    \/ LogoUrlThrows(c)
    \/ LogoReadFileThrows(c)
    \/ \E status \in HttpStatuses : LogoTransferReturns(c, status)
    \/ LogoTransferThrows(c)
    \/ LogoDocumentReturns(c)
    \/ LogoDocumentThrows(c)

NextTheme ==
    \/ /\ requests < MaxThemeRequests
       /\ \E args \in ThemeArgs :
             CallToolRequest(1, "update_organization_theme", args, TRUE)
    \/ Settle(1)
    \/ LogoSteps(1)
    \/ RemoteReturns(1)
    \/ RemoteThrows(1)

SpecTheme == InitTheme /\ [][NextTheme]_vars

(***************************************************************************)
(* Server instances of one process: made while the identity token is set   *)
(* or missing, with or without a .env.local left by an earlier run, and    *)
(* then called with the configuration tools and a theme update.            *)
(***************************************************************************)
IdOrgB == <<"o", "r", "g", "2">>
EnvNoToken == Env(<<>>, IdOrg, IdUser)

\* a .env.local written by an earlier run that had set the token
FileWithToken == updateEnvFile([DefaultConfig EXCEPT !.apiKey = Str(Key5)])

ServerNames ==
    {"config_get", "config_set", "config_status", "config_reset",
     "update_organization_theme"}

ServerArgs(name) ==
    CASE name = "config_set" ->
            {With("apiKey", Str(Key4)), With("organizationId", Str(IdOrgB))}
      [] name = "update_organization_theme" -> {With("organizationId", Str(IdOrg))}
      [] OTHER -> {Obj(EmptyObj)}

InitServers ==
    /\ variant = "full"
    /\ now = 0
    /\ failedAttempts = [r \in TrackerRegistries |-> EmptyMap]
    /\ config = Null
    /\ envFile \in {Null, FileWithToken}
    /\ processEnv \in {EnvEmpty, EnvNoToken, EnvFull}
    /\ calls = [c \in {1} |-> IdleCall]
    /\ requests = 0
    /\ last = NoResponse
    /\ managerLast = NoManagerCall
    /\ listed = Null
    /\ ServersIdle
    /\ HttpIdle

NextServers ==
    \/ \E i \in ServerIds, entry \in Entries : CreateServer(i, entry)
    \/ /\ serverLast.seq < MaxServerCalls
       /\ \E i \in ServerIds, name \in ServerNames :
             \E args \in ServerArgs(name), writeOk \in WriteOutcomes(name) :
                ServerCall(i, name, args, writeOk)

SpecServers == InitServers /\ [][NextServers]_vars

(***************************************************************************)
(* Properties of the failure tracker, checked under Spec.                  *)
(***************************************************************************)
\* the step answers a call
Answered == last'.id # last.id
\* the message of the error the request handler caught
MessageOf(result) == SubSeq(result.text, 4, Len(result.text))
IsValidationError(msg) == Len(msg) >= 1 /\ msg[1] = "ZodError: "
Tracked(name) == HasTracker(RouteOf(variant, name), variant)
\* the step answers a call that failed in the parse or in the handler
TrackedFailure ==
    /\ Answered
    /\ Tracked(last'.name)
    /\ last'.stage \in {"validation", "handler"}
ValidationFailure == TrackedFailure /\ last'.stage = "validation"

\* C1: from no failure record, three validation failures in a row for one
\* name, each within 2 minutes of the one before, give the plain validation
\* error on the first and the second call and the loop error on the third.
\* Stated on the record: a validation failure that finds no record leaves
\* count 1 and is plain, one that finds count 1 less than 2 minutes old leaves
\* count 2 and is plain, one that finds count 2 less than 2 minutes old leaves
\* count 3 and is the loop error.
C1_ThirdFailureLoops ==
    [][ValidationFailure =>
        LET r == RecordOf(failedAttempts, last'.name)
            r2 == RecordOf(failedAttempts', last'.name)
            msg == MessageOf(last'.result)
            recent == r # Undef /\ now - r.lastAttempt < LOOP_WINDOW_MS
        IN /\ last'.result.isError
           /\ r = Undef => r2.count = 1 /\ IsValidationError(msg)
           /\ (recent /\ r.count = 1) => r2.count = 2 /\ IsValidationError(msg)
           /\ (recent /\ r.count = 2) => r2.count = 3 /\ IsLoopMessage(msg)]_vars

\* the third failure of a streak has just been answered with the loop error
C1_Witness ==
    /\ last.stage = "validation"
    /\ last.before # Undef
    /\ last.before.count = 2
    /\ last.at - last.before.lastAttempt < LOOP_WINDOW_MS
    /\ IsLoopMessage(MessageOf(last.result))

\* C2: when a call's arguments pass the schema the failure record of its
\* name is deleted before the handler runs, whatever the record held, and a
\* failure that finds no record leaves a record of count 1.
C2_ClearedOnValidation ==
    [][/\ \A c \in Slots :
            (calls[c].pc = "idle" /\ calls'[c].pc # "idle"
               /\ Tracked(calls'[c].name))
            => RecordOf(failedAttempts', calls'[c].name) = Undef
       /\ (TrackedFailure /\ RecordOf(failedAttempts, last'.name) = Undef)
            => RecordOf(failedAttempts', last'.name)
                 = FreshAttempt(now, MessageOf(last'.result))]_vars

\* a handler is running for a name whose last two calls failed validation
C2_Witness ==
    \E c \in Slots :
        /\ calls[c].pc # "idle"
        /\ Tracked(calls[c].name)
        /\ last.name = calls[c].name
        /\ last.id + 1 = calls[c].id
        /\ last.stage = "validation"
        /\ last.before # Undef
        /\ RecordOf(failedAttempts, calls[c].name) = Undef

\* C3: a failed call to one name leaves the failure record of every other
\* name as it was: present or absent, count, time of the last failure and
\* error history.
C3_OtherRecordsUnchanged ==
    [][(Answered /\ last'.result.isError) =>
        \A reg \in TrackerRegistries :
            \A n2 \in (DOMAIN failedAttempts[reg] \cup DOMAIN failedAttempts'[reg])
                         \ {last'.name} :
                /\ n2 \in DOMAIN failedAttempts[reg]
                /\ n2 \in DOMAIN failedAttempts'[reg]
                /\ failedAttempts'[reg][n2] = failedAttempts[reg][n2]]_vars

\* a name has just failed while another name of the same registry has a record
C3_Witness ==
    \E reg \in TrackerRegistries :
        \E n2 \in DOMAIN failedAttempts[reg] :
            /\ n2 # last.name
            /\ RouteOf(variant, last.name) = reg
            /\ last.stage \in {"validation", "handler"}
            /\ last.name \in DOMAIN failedAttempts[reg]
            /\ failedAttempts[reg][last.name].lastAttempt = last.at
            /\ failedAttempts[reg][n2].lastAttempt <= last.at

\* C4: a failure that finds a record whose last failure is more than 5 minutes
\* old leaves count 1 and a history of the new message alone, and is answered
\* with the plain error, not the loop error.
C4_StaleRecordRestarts ==
    [][(/\ TrackedFailure
        /\ RecordOf(failedAttempts, last'.name) # Undef
        /\ now - RecordOf(failedAttempts, last'.name).lastAttempt > RESET_WINDOW_MS)
       => LET r2 == RecordOf(failedAttempts', last'.name)
              msg == MessageOf(last'.result)
          IN /\ r2.count = 1
             /\ r2.errors = <<msg>>
             /\ r2.lastAttempt = now
             /\ ~IsLoopMessage(msg)
             /\ last'.stage = "validation" => IsValidationError(msg)]_vars

\* a validation failure found a streak of two more than 5 minutes old
C4_Witness ==
    /\ last.stage = "validation"
    /\ last.before # Undef
    /\ last.before.count >= 2
    /\ last.at - last.before.lastAttempt > RESET_WINDOW_MS
    /\ IsValidationError(MessageOf(last.result))


(***************************************************************************)
(* Properties of the dispatcher, checked under SpecDispatch.               *)
(***************************************************************************)
\* the step receives a call-tool request
Started == requests' = requests + 1
\* the name of the request the step receives
StartedName ==
    IF last'.id = requests' THEN last'.name
    ELSE calls'[CHOOSE c \in Slots : calls'[c].id = requests'].name
\* the places a handler waits at
AwaitPoints == {"settle", "remote", "step1", "step2", "step3", "step4"}
\* how the message of an error thrown at each stage begins
MessageHeads(stage, name) ==
    CASE stage = "unknown" -> {"Unknown tool: "}
      [] stage = "notfound" -> {"Tool "}
      [] stage = "config" -> {MSG_INCOMPLETE[1]}
      [] stage = "typeerror" -> {"Cannot read properties of undefined (reading '",
                                 "args."}
      [] stage = "placeholder" -> {MSG_INVALID_ORG("")[1], MSG_INVALID_USER("")[1]}
      [] stage = "validation" -> {"ZodError: ", LOOP_DETECTED}
      [] stage = "handler" -> {"Failed to update configuration: ",
                               "Failed to reset configuration: ", LOOP_DETECTED}
                              \cup {HandlerPrefix(name)[j] : j \in 1..Len(HandlerPrefix(name))}
      [] OTHER -> {}

\* C5: whatever the name and the arguments (none at all, or an identifier
\* that is not a string), the request handler answers with a result and
\* nothing escapes it: a request is answered at once or waits at an await of
\* its handler, a call that ends is answered, and a failure at any stage is a
\* result with isError = true whose text is the fixed prefix followed by the
\* message of the error thrown at that stage.
C5_AlwaysAResult ==
    [][/\ Started =>
            \/ last'.id = requests'
            \/ \E c \in Slots : calls'[c].id = requests' /\ calls'[c].pc \in AwaitPoints
       /\ \A c \in Slots :
            (calls[c].pc # "idle" /\ calls'[c].id # calls[c].id)
            => (Answered /\ last'.id = calls[c].id)
       /\ Answered =>
            LET res == last'.result
            IN /\ res.isError = (last'.stage # "ok")
               /\ res.isError =>
                    /\ Len(res.text) >= 4
                    /\ SubSeq(res.text, 1, 3)
                         = <<"Error executing tool ", last'.name, ": ">>
                    /\ res.text[4] \in MessageHeads(last'.stage, last'.name)]_vars

\* a call with an identifier that is not a string was answered with the
\* TypeError as an error result
C5_Witness ==
    /\ last.stage = "typeerror"
    /\ last.args # Undef
    /\ last.result.isError
    /\ MessageOf(last.result)[1] = "args."

\* C6 as stated: a call to any theme, upload or PDF operation made while the
\* API key is not configured is answered with the not-configured error
\* before validation, and no handler is called.
C6_EveryRegistryChecksConfiguration ==
    [][(/\ Started
        /\ RouteOf(variant, StartedName) \in {"graphql", "upload", "pdf"}
        /\ ~isConfigured(config, processEnv))
       => (/\ last'.id = requests'
           /\ last'.stage = "config"
           /\ MessageOf(last'.result) = MSG_INCOMPLETE)]_vars

\* C6 amended: the theme and upload registries answer such a call with the
\* not-configured error before validation and call no handler; the PDF
\* registry makes no configuration check, so its call is parsed and, when
\* the arguments are valid, its handler is called.
C6_ThemeAndUploadCheckConfiguration ==
    [][(Started /\ ~isConfigured(config, processEnv)) =>
        /\ RouteOf(variant, StartedName) \in {"graphql", "upload"}
            => (/\ last'.id = requests'
                /\ last'.stage = "config"
                /\ MessageOf(last'.result) = MSG_INCOMPLETE)
        /\ RouteOf(variant, StartedName) = "pdf"
            => IF last'.id = requests'
               THEN last'.stage = "validation"
               ELSE \E c \in Slots : /\ calls'[c].id = requests'
                                      /\ calls'[c].pc \in AwaitPoints]_vars

\* an upload call whose arguments the schema would reject was answered with
\* the not-configured error
C6_Witness ==
    /\ last.stage = "config"
    /\ last.name = "upload_file"
    /\ last.args.t = "obj"
    /\ ~Parse(variant, last.name, last.args).ok
    /\ ~isConfigured(config, processEnv)

(***************************************************************************)
(* Properties of the upload workflow, checked under SpecUpload.            *)
(***************************************************************************)
UPLOAD_ORDER == <<"fetchFileUploadUrl", "PUT", "createFileDocument", "updateOrganization">>
StepNo(pc) ==
    CASE pc = "step1" -> 1 [] pc = "step2" -> 2 [] pc = "step3" -> 3
      [] pc = "step4" -> 4 [] OTHER -> 0
FirstSteps(k) == SubSeq(UPLOAD_ORDER, 1, k)

C8_StepsInOrder ==
    [][\A c \in Slots :
         /\ calls'[c].pc \in {"step1", "step2", "step3", "step4"}
              => calls'[c].issued = FirstSteps(StepNo(calls'[c].pc))
         /\ (calls[c].pc \in {"step1", "step2", "step3"}
               /\ calls'[c].id = calls[c].id /\ calls'[c].pc # calls[c].pc)
              => /\ StepNo(calls'[c].pc) = StepNo(calls[c].pc) + 1
                 /\ \/ Step1Returns(c)
                    \/ \E status \in HttpStatuses : IsOk(status) /\ Step2Returns(c, status)
                    \/ Step3Returns(c)
         /\ (Step1Throws(c) \/ ReadFileThrows(c) \/ Step2Throws(c) \/ Step3Throws(c)
               \/ \E status \in HttpStatuses : ~IsOk(status) /\ Step2Returns(c, status))
              => /\ last'.id = calls[c].id
                 /\ last'.result.isError
                 /\ last'.issued = FirstSteps(StepNo(calls[c].pc))
                 /\ calls'[c].pc = "idle"
         /\ \A status \in HttpStatuses :
              (~IsOk(status) /\ Step2Returns(c, status))
              => /\ Carries(last'.result.text,
                            <<"Failed to upload file to S3: ", ToString(status)>>)
                 /\ "createFileDocument" \notin Range(last'.issued)]_vars

\* a PUT answered 403 ended the call with the transfer error after two steps
C8_Witness ==
    /\ last.name = "upload_file"
    /\ last.result.isError
    /\ last.issued = FirstSteps(2)
    /\ Carries(last.result.text, <<"Failed to upload file to S3: ", "403">>)

\* C9: a success result of upload_file reports step 4 as done only when the
\* organization update was issued and succeeded, the update is issued only
\* when updateTheme is true, objectType is ORGANIZATION and type is LOGO, and
\* in every other case step 4 is reported as skipped.
C9_Step4ReportedOnlyWhenDone ==
    (last.name = "upload_file" /\ last.stage = "ok" /\ variant = "full") =>
        LET value == Parse(variant, last.name, last.args).value
            steps == last.result.payload.steps
            updated == "updateOrganization" \in Range(last.issued)
        IN /\ updated => /\ Truthy(value["updateTheme"])
                         /\ value["objectType"] = Word("ORGANIZATION")
                         /\ value["type"] = Word("LOGO")
           /\ STEP4_DONE \in Range(steps) => updated
           /\ ~updated => STEP4_SKIPPED \in Range(steps)

(***************************************************************************)
(* Properties of the HTTP server, checked under SpecHttp.                  *)
(***************************************************************************)
\* the step answers a POST /mcp
Posted == httpLast'.seq # httpLast.seq

\* C10: a POST whose sessionId is not a key of the session table (never
\* registered, or removed by a close or by stop()) is answered 404 "Session
\* not found or expired" and forwarded to no transport, and no POST changes
\* the session table.
C10_UnknownSessionNotFound ==
    [][Posted =>
        /\ sessions' = sessions
        /\ conns' = conns
        /\ (/\ IsString(httpLast'.query)
            /\ Truthy(httpLast'.query)
            /\ httpLast'.query.s \notin SessionKeys(sessions))
           => /\ httpLast'.status = 404
              /\ httpLast'.error = MSG_SESSION_NOT_FOUND
              /\ httpLast'.forwarded = Undef]_vars

\* a POST named the session of a connection that had been established and
\* closed, with another session still registered, and got the 404
C10_Witness ==
    \E k \in ConnIds :
        /\ httpLast.query = Str(SessionIdOf(k))
        /\ httpLast.status = 404
        /\ conns[k].phase = "established"
        /\ conns[k].channel = "closed"
        /\ sessions # <<>>


(***************************************************************************)
(* Properties of the session lifecycle, checked under SpecHttp.            *)
(***************************************************************************)
\* the step emits the 'close' event of connection k with its listeners set
ClosesEstablished(k) ==
    /\ conns[k].listeners
    /\ conns[k].channel = "open"
    /\ conns'[k].channel = "closed"

\* C11 as stated: when a session's channel closes, the keepalive timer is
\* cancelled first, so that it is no longer active once the session entry
\* has been removed and the transport and handler have been released
C11_TimerCancelledFirst ==
    [][\A k \in ConnIds :
          (/\ ClosesEstablished(k)
           /\ SessionIdOf(k) \notin SessionKeys(sessions')
           /\ conns'[k].transport = "closed")
          => conns'[k].heartbeat # "active"]_vars

\* C11 amended: when the close event of an established session fires, the
\* session entry is removed and the transport and the handler are closed
\* first, with the timer left as it was; the very next step is the second
\* listener, which cancels the timer and changes nothing else
C11_EntryRemovedThenTimerCancelled ==
    [][\A k \in ConnIds :
          /\ ClosesEstablished(k)
             => /\ SessionIdOf(k) \notin SessionKeys(sessions')
                /\ conns'[k].transport = "closed"
                /\ conns'[k].server = "closed"
                /\ conns'[k].heartbeat = conns[k].heartbeat
                /\ conns'[k].closing
          /\ conns[k].closing
             => /\ conns'[k].heartbeat = "cleared"
                /\ ~conns'[k].closing
                /\ conns' = [conns EXCEPT ![k].heartbeat = "cleared",
                                          ![k].closing = FALSE]
                /\ UNCHANGED <<sessions, listener, httpLast>>]_vars

\* an established session whose close event ran both listeners
C11_Witness ==
    \E k \in ConnIds :
        /\ conns[k].listeners
        /\ conns[k].channel = "closed"
        /\ ~conns[k].closing
        /\ conns[k].heartbeat = "cleared"
        /\ conns[k].transport = "closed"
        /\ SessionIdOf(k) \notin SessionKeys(sessions)

\* C12 as stated: no keepalive write is ever performed on a channel that
\* has closed, whatever the interleaving of ticks, closes and connects
C12_NoWriteAfterClose ==
    \A k \in ConnIds : ~conns[k].lateWrite

\* C13 as stated: when stop() releases the HTTP listener, the keepalive
\* timer of every session it closed is cancelled; when stop() completes, the
\* session table is empty and no keepalive timer is active, also for a
\* session whose establishment overlapped with stop()
C13_StopLeavesNothing ==
    /\ listener.state = "closed"
          => \A k \in ConnIds :
                (conns[k].transport = "closed" /\ ~conns[k].closing)
                    => conns[k].heartbeat # "active"
    /\ listener.resolved
          => /\ sessions = <<>>
             /\ \A k \in ConnIds : conns[k].heartbeat # "active"


(***************************************************************************)
(* Properties of the ConfigManager, checked under SpecConfig.              *)
(***************************************************************************)
\* the step is a direct call of the ConfigManager method op
ManagerCalled(op) ==
    /\ managerLast'.seq # managerLast.seq
    /\ managerLast'.op = op
\* the error is of the invalid-configuration kind: the endpoint refusal or
\* the 'Invalid config: ' wrapper of updateConfig's catch
IsInvalidConfiguration(message) ==
    \/ message = MSG_ENDPOINT_HARDCODED
    \/ Len(message) >= 1 /\ Head(message) = "Invalid config: "

\* C14: updateConfig with a graphqlEndpoint value other than the fixed
\* endpoint (the empty string and undefined included) always throws an
\* invalid-configuration error, whatever the configuration holds
C14_EndpointChangeAlwaysFails ==
    [][(/\ ManagerCalled("updateConfig")
        /\ "graphqlEndpoint" \in DOMAIN managerLast'.updates
        /\ managerLast'.updates["graphqlEndpoint"] # Word(HARDCODED_GRAPHQL_ENDPOINT))
       => /\ managerLast'.threw
          /\ IsInvalidConfiguration(managerLast'.message)]_vars

\* an empty endpoint passed the endpoint test and was refused by the schema,
\* on a configuration holding a key and an organization id
C14_Witness ==
    /\ managerLast.op = "updateConfig"
    /\ managerLast.updates = ("graphqlEndpoint" :> Word(""))
    /\ managerLast.threw
    /\ managerLast.message # MSG_ENDPOINT_HARDCODED
    /\ config # Null
    /\ config.apiKey # Str(<<>>)
    /\ config.organizationId # Str(<<>>)

\* the write of .env.local failed inside updateConfig
IsWriteFailure(message) == message = <<"Invalid config: ">> \o MSG_EACCES

\* C15 as stated: updateConfig({}) on any loaded configuration succeeds (a
\* failure of the file write aside), rewrites the persisted file from the
\* configuration and leaves every field of the in-memory configuration as
\* it was, so that a second application changes nothing
C15_EmptyUpdateIsIdentity ==
    [][(ManagerCalled("updateConfig") /\ managerLast'.updates = EmptyUpdates)
       => /\ managerLast'.threw => IsWriteFailure(managerLast'.message)
          /\ config' = getConfig(config, processEnv)
          /\ ~managerLast'.threw => envFile' = updateEnvFile(config')
          /\ (/\ ~managerLast'.threw
              /\ managerLast.op = "updateConfig"
              /\ managerLast.updates = EmptyUpdates
              /\ ~managerLast.threw)
             => (config' = config /\ envFile' = envFile)]_vars

\* the step is the synchronous part of a config_get call
StartsConfigGet ==
    /\ calls[1].pc = "idle"
    /\ calls'[1].pc = "settle"
    /\ calls'[1].name = "config_get"

\* C18 as stated: the apiKey that config_get returns never contains the
\* complete configured key, whatever the length of a non-empty key
C18_KeyNeverComplete ==
    [][StartsConfigGet
       => LET key == getConfig(config, processEnv).apiKey
              shown == calls'[1].outcome.payload.safeConfig.apiKey
          IN key.s # <<>> => ~Includes(shown.s, key.s)]_vars

\* C19 as stated: the getConfig() that follows a successful resetConfig()
\* returns the hard-coded defaults reset wrote to the file; the values of
\* the process environment do not reappear
C19_ResetThenGetGivesDefaults ==
    [][(/\ ManagerCalled("getConfig")
        /\ managerLast.op = "resetConfig"
        /\ ~managerLast.threw
        /\ config = Null)
       => /\ managerLast'.returned = DefaultConfig
          /\ updateEnvFile(managerLast'.returned) = envFile]_vars


(***************************************************************************)
(* Properties of the dispatch, checked under SpecDispatch.                 *)
(***************************************************************************)
\* the argument f of the call is a string holding a placeholder pattern
ContainsPlaceholder(args, f) ==
    /\ args.t = "obj"
    /\ Prop(args, f).t = "str"
    /\ IsPlaceholder(Prop(args, f).s)
\* the step answers with the placeholder error msg: thrown before the parse,
\* no handler started, no remote call issued
RejectedAsPlaceholder(msg) ==
    /\ last'.stage = "placeholder"
    /\ last'.result.isError
    /\ MessageOf(last'.result) = msg
    /\ last'.issued = <<>>

\* C16 as stated: on a minimally configured server a call whose identifier
\* argument (organizationId for the theme operations, objectId or userId
\* for upload_file) holds a placeholder pattern is answered with the
\* placeholder message of that argument, whatever the other arguments are
C16_PlaceholderRejectedFirst ==
    [][(Answered /\ isConfigured(config, processEnv))
       => LET a == last'.args
              reg == RouteOf(variant, last'.name)
          IN /\ (reg = "graphql" /\ ContainsPlaceholder(a, "organizationId"))
                   => RejectedAsPlaceholder(MSG_INVALID_ORG("organizationId"))
             /\ (reg = "upload" /\ ContainsPlaceholder(a, "objectId"))
                   => RejectedAsPlaceholder(MSG_INVALID_ORG("objectId"))
             /\ (/\ reg = "upload"
                 /\ ~ContainsPlaceholder(a, "objectId")
                 /\ ContainsPlaceholder(a, "userId"))
                   => RejectedAsPlaceholder(MSG_INVALID_USER("userId"))]_vars

\* only the identity token is configured
OnlyTokenConfigured ==
    LET c == getConfig(config, processEnv)
    IN c.apiKey # Str(<<>>) /\ c.organizationId = Str(<<>>) /\ c.userId = Str(<<>>)

\* C17: with only the identity token configured, a theme update that passed
\* validation without an organizationId is answered with the error that
\* names organizationId as the field to set, and no remote call was issued
C17_MissingOrganizationNamed ==
    [][(/\ Answered
        /\ OnlyTokenConfigured
        /\ last'.name = "update_organization_theme"
        /\ last'.stage \in {"handler", "ok"}
        /\ ~Truthy(Prop(last'.args, "organizationId")))
       => /\ last'.stage = "handler"
          /\ last'.result.isError
          /\ MessageOf(last'.result)
                = HandlerPrefix("update_organization_theme") \o MSG_ORG_NOT_CONFIGURED
          /\ last'.issued = <<>>]_vars

\* the trimmed source answered such a call
C17_Witness ==
    /\ variant = "trimmed"
    /\ OnlyTokenConfigured
    /\ last.name = "update_organization_theme"
    /\ last.args = Obj(EmptyObj)
    /\ last.stage = "handler"
    /\ MessageOf(last.result)
          = HandlerPrefix("update_organization_theme") \o MSG_ORG_NOT_CONFIGURED

\* the step receives a call-tool request
Requested == requests' = requests + 1
\* the name of the request the step receives
RequestedName ==
    IF Answered THEN last'.name
    ELSE calls'[CHOOSE c \in Slots : calls[c].pc = "idle" /\ calls'[c].pc # "idle"].name
\* the registry whose handler the step started, "" when it started none
StartedRegistry ==
    IF \E c \in Slots : calls[c].pc = "idle" /\ calls'[c].pc # "idle"
    THEN calls'[CHOOSE c \in Slots : calls[c].pc = "idle" /\ calls'[c].pc # "idle"].reg
    ELSE ""
\* the registries whose getTools() holds name
ListedBy(name) == {reg \in Range(Registries) : name \in Range(getTools(reg, variant))}

\* C20: the list-tools response is the registries' lists joined in the
\* order theme, PDF, upload, configuration, without a repeated name; a
\* request runs handleTool of a registry exactly when its name is in that
\* list, of the one registry that lists it; any other name is answered
\* 'Unknown tool', with no handler started and every failure record as it was
C20_ListAndRouting ==
    [][/\ listed' # Null
          => /\ listed' = GraphQLToolNames(variant) \o PDFToolNames
                             \o ImageUploadToolNames \o ConfigToolNames
             /\ \A i, j \in 1..Len(listed') : listed'[i] = listed'[j] => i = j
       /\ Requested
          => LET name == RequestedName
                 inList == name \in Range(ListTools(variant))
             IN /\ inList <=> ~(Answered /\ last'.stage = "unknown")
                /\ inList => /\ Cardinality(ListedBy(name)) = 1
                             /\ RouteOf(variant, name) \in ListedBy(name)
                             /\ StartedRegistry \in {"", RouteOf(variant, name)}
                /\ ~inList => /\ last'.result.isError
                              /\ MessageOf(last'.result) = <<"Unknown tool: ", name>>
                              /\ StartedRegistry = ""
                              /\ calls' = calls
                              /\ failedAttempts' = failedAttempts]_vars

\* the list was returned and a name outside it was answered
C20_Witness ==
    /\ listed # Null
    /\ Len(listed) > Len(ConfigToolNames) + Len(PDFToolNames)
    /\ last.name = "no_such_tool"
    /\ last.stage = "unknown"


(***************************************************************************)
(* Properties of long streaks, checked under SpecStreak.                   *)
(***************************************************************************)
\* the message of the error the catch block of handleTool caught in the step
CaughtMessage ==
    IF last'.stage = "validation"
    THEN Parse("full", last'.name, last'.args).message
    ELSE LET c == CHOOSE c \in DOMAIN calls : calls[c].id = last'.id
         IN IF calls[c].pc = "settle" THEN calls[c].outcome.message
            ELSE HandlerPrefix(last'.name) \o MSG_REMOTE

\* C21: a failing call is answered with the loop error exactly when the
\* record found before the call already had count >= 3 and a last failure
\* less than 2 minutes old, and with the plain error otherwise; the record
\* is updated in both cases.
C21_LoopIffThreeBefore ==
    [][TrackedFailure =>
        LET r == RecordOf(failedAttempts, last'.name)
            r2 == RecordOf(failedAttempts', last'.name)
            msg == MessageOf(last'.result)
        IN /\ IsLoopMessage(msg)
                <=> /\ r # Undef
                    /\ r.count >= LOOP_THRESHOLD
                    /\ now - r.lastAttempt < LOOP_WINDOW_MS
           /\ ~IsLoopMessage(msg) => msg = CaughtMessage
           /\ r2 # Undef
           /\ r2 # r]_vars

\* C22: a failure that comes 2 minutes or more after the last recorded
\* failure of its name is never answered with the loop error, whatever the
\* count has reached.
C22_NoLoopAfterTwoMinutes ==
    [][(/\ TrackedFailure
        /\ RecordOf(failedAttempts, last'.name) # Undef
        /\ now - RecordOf(failedAttempts, last'.name).lastAttempt >= LOOP_WINDOW_MS)
       => ~IsLoopMessage(MessageOf(last'.result))]_vars

\* C23 as stated: a failure that finds a record of count n leaves n+1 exactly
\* when the last recorded failure is less than 5 minutes old, and leaves 1
\* at every gap of 5 minutes or more.
C23_ContinuesBelowFiveMinutes ==
    [][(TrackedFailure /\ RecordOf(failedAttempts, last'.name) # Undef) =>
        LET r == RecordOf(failedAttempts, last'.name)
            r2 == RecordOf(failedAttempts', last'.name)
        IN /\ now - r.lastAttempt < RESET_WINDOW_MS => r2.count = r.count + 1
           /\ now - r.lastAttempt >= RESET_WINDOW_MS => r2.count = 1]_vars

\* C23: a failure that finds a record of count n leaves n+1 exactly when the
\* last recorded failure is at most 5 minutes old, a gap of exactly 5 minutes
\* included, and leaves 1 at every gap of more than 5 minutes.
C23_ContinuesUpToFiveMinutes ==
    [][(TrackedFailure /\ RecordOf(failedAttempts, last'.name) # Undef) =>
        LET r == RecordOf(failedAttempts, last'.name)
            r2 == RecordOf(failedAttempts', last'.name)
        IN /\ now - r.lastAttempt <= RESET_WINDOW_MS => r2.count = r.count + 1
           /\ now - r.lastAttempt > RESET_WINDOW_MS => r2.count = 1
           /\ r2.lastAttempt = now]_vars

\* a failure exactly 5 minutes after the one before has continued the streak
C23_Witness ==
    /\ last.stage \in {"validation", "handler"}
    /\ last.before # Undef
    /\ last.at - last.before.lastAttempt = RESET_WINDOW_MS
    /\ RecordOf(failedAttempts, last.name) # Undef
    /\ RecordOf(failedAttempts, last.name).lastAttempt = last.at
    /\ RecordOf(failedAttempts, last.name).count = last.before.count + 1

\* C24: every failure record has count >= 1 and holds min(count, 5) error
\* messages; a failure puts its own message last and keeps the messages of
\* the streak before it in their order, dropping the oldest when a sixth
\* arrives, and a restarted streak holds the new message alone.
C24_HistoryOfTheStreak ==
    /\ [](\A reg \in TrackerRegistries :
            \A n \in DOMAIN failedAttempts[reg] :
                LET r == failedAttempts[reg][n]
                IN /\ r.count >= 1
                   /\ Len(r.errors) <= MAX_ERRORS
                   /\ Len(r.errors) = IF r.count < MAX_ERRORS THEN r.count
                                      ELSE MAX_ERRORS)
    /\ [][TrackedFailure =>
            LET r == RecordOf(failedAttempts, last'.name)
                r2 == RecordOf(failedAttempts', last'.name)
                k == Len(r2.errors)
            IN /\ r2.errors[k] = CaughtMessage
               /\ r2.count = 1 => k = 1
               /\ r2.count > 1 =>
                    /\ r # Undef
                    /\ Len(r.errors) < MAX_ERRORS
                         => SubSeq(r2.errors, 1, k - 1) = r.errors
                    /\ Len(r.errors) = MAX_ERRORS
                         => SubSeq(r2.errors, 1, k - 1) = Tail(r.errors)]_vars

\* a streak has gone past five failures
C24_Witness ==
    \E reg \in TrackerRegistries :
        \E n \in DOMAIN failedAttempts[reg] :
            /\ failedAttempts[reg][n].count > MAX_ERRORS
            /\ Len(failedAttempts[reg][n].errors) = MAX_ERRORS
            /\ failedAttempts[reg][n].errors[1] # failedAttempts[reg][n].errors[MAX_ERRORS]

\* C26 as stated, in its first consequence: a handler failure that follows a
\* handler failure of the same name, no more than 5 minutes later, leaves a
\* count of at least 2.
C26_HandlerFailuresAccumulate ==
    [][(/\ TrackedFailure
        /\ last'.stage = "handler"
        /\ last.stage = "handler"
        /\ last.name = last'.name
        /\ now - last.at <= RESET_WINDOW_MS)
       => RecordOf(failedAttempts', last'.name).count >= 2]_vars

\* C26: with the calls of a name made one after another, a handler failure
\* leaves a record of count 1 that holds its message alone, and is answered
\* with that message, never with the loop error: the validation that went
\* before it deleted the record.
C26_HandlerFailureStartsAfresh ==
    [][(TrackedFailure /\ last'.stage = "handler") =>
        /\ RecordOf(failedAttempts, last'.name) = Undef
        /\ RecordOf(failedAttempts', last'.name) = FreshAttempt(now, CaughtMessage)
        /\ MessageOf(last'.result) = CaughtMessage
        /\ ~IsLoopMessage(MessageOf(last'.result))]_vars

\* the fourth call or a later one has failed in its handler and left count 1
C26_Witness ==
    /\ last.stage = "handler"
    /\ last.id >= 4
    /\ RecordOf(failedAttempts, last.name) # Undef
    /\ RecordOf(failedAttempts, last.name).count = 1

\* C28: a loop error states the record's count after the failure was
\* recorded and quotes three messages, oldest first: the last two the record
\* held before and then the message of the failure that set it off.
C28_LoopQuotesLastThree ==
    [][(TrackedFailure /\ IsLoopMessage(MessageOf(last'.result))) =>
        LET r == RecordOf(failedAttempts, last'.name)
            r2 == RecordOf(failedAttempts', last'.name)
            k == Len(r.errors)
        IN /\ r # Undef
           /\ k >= 2
           /\ r2.count = r.count + 1
           /\ MessageOf(last'.result)
                = <<LOOP_DETECTED, ToString(r2.count), LOOP_ADVICE>>
                    \o r.errors[k - 1] \o <<"; ">> \o r.errors[k] \o <<"; ">>
                    \o CaughtMessage]_vars

\* a loop error was given on a streak of four or more whose oldest message
\* differs from the one that set it off
C28_Witness ==
    /\ IsLoopMessage(MessageOf(last.result))
    /\ last.before # Undef
    /\ last.before.count >= LOOP_THRESHOLD
    /\ last.before.errors[1] # RecordOf(failedAttempts, last.name).errors[
                                   Len(RecordOf(failedAttempts, last.name).errors)]


(***************************************************************************)
(* Properties of repeated rejections, checked under SpecRepeat.            *)
(***************************************************************************)
\* C25: a schema-validation failure of an operation of any registry leaves a
\* failure record for its name, with the count one more than before (1 when
\* there was none), and is answered with the loop error once the count has
\* reached 3.
C25_EveryRegistryTracks ==
    [][(Answered /\ last'.stage = "validation") =>
        LET r == RecordOf(failedAttempts, last'.name)
            r2 == RecordOf(failedAttempts', last'.name)
        IN /\ r2 # Undef
           /\ r2.count = IF r = Undef THEN 1 ELSE r.count + 1
           /\ r2.count >= LOOP_THRESHOLD => IsLoopMessage(MessageOf(last'.result))]_vars

\* C27: a call rejected by the not-configured check or by the placeholder
\* check leaves every failure record as it was: none is created, changed or
\* deleted.
C27_RejectionLeavesRecords ==
    [][(Answered /\ last'.stage \in {"config", "placeholder"}) =>
        /\ failedAttempts' = failedAttempts
        /\ RecordOf(failedAttempts', last'.name) = RecordOf(failedAttempts, last'.name)
        /\ ~IsLoopMessage(MessageOf(last'.result))]_vars

\* a placeholder was rejected for a name that has a failure record, and the
\* record is as it was
C27_Witness ==
    /\ last.stage = "placeholder"
    /\ Tracked(last.name)
    /\ last.before # Undef
    /\ last.before.count >= 2
    /\ RecordOf(failedAttempts, last.name) = last.before


(***************************************************************************)
(* Properties of overlapping calls, checked under SpecRace.                *)
(***************************************************************************)
\* the step passes the arguments of a call of a tracked name to its handler
ValidatedNames ==
    {calls'[c].name : c \in {d \in DOMAIN calls :
                               /\ calls[d].pc = "idle"
                               /\ calls'[d].pc # "idle"
                               /\ Tracked(calls'[d].name)}}

\* C29: with calls of one name in flight together, every failure leaves the
\* count one above the count the record held when the failure was caught (1
\* when there was no record or the streak had run out), every successful
\* validation leaves the name without a record, and no other step touches
\* the records: a handler that returns while the record is gone or has moved
\* on leaves it so.
C29_NoUpdateLost ==
    [][/\ TrackedFailure =>
            LET r == RecordOf(failedAttempts, last'.name)
                r2 == RecordOf(failedAttempts', last'.name)
            IN /\ r2 # Undef
               /\ r2.count = IF r = Undef \/ now - r.lastAttempt > RESET_WINDOW_MS
                             THEN 1 ELSE r.count + 1
               /\ r2.errors[Len(r2.errors)] = CaughtMessage
       /\ \A name \in ValidatedNames : RecordOf(failedAttempts', name) = Undef
       /\ (~TrackedFailure /\ ValidatedNames = {}) => failedAttempts' = failedAttempts]_vars

\* a handler has failed while another call of its name was still waiting,
\* on top of a record a third call had left in the meantime
C29_Witness ==
    /\ last.stage = "handler"
    /\ last.before # Undef
    /\ RecordOf(failedAttempts, last.name) # Undef
    /\ RecordOf(failedAttempts, last.name).count = last.before.count + 1
    /\ \E c \in DOMAIN calls : calls[c].pc = "remote" /\ calls[c].name = last.name


(***************************************************************************)
(* Properties of the ConfigManager's cache and file, checked under         *)
(* SpecConfig.                                                             *)
(***************************************************************************)
\* C30: after every updateConfig or resetConfig call, returned or thrown,
\* the configuration getConfig() gives agrees field by field with the one
\* last written to the .env file.
C30_CacheAgreesWithFile ==
    [][(/\ managerLast'.seq # managerLast.seq
        /\ managerLast'.op \in {"updateConfig", "resetConfig"}
        /\ envFile' # Null)
       => updateEnvFile(getConfig(config', processEnv)) = envFile']_vars


\* C31: an updateConfig call that throws, for a schema-invalid merge, an
\* endpoint change or a failed write, leaves the configuration getConfig()
\* gives and the .env file as they were before the call.
C31_FailedUpdateChangesNothing ==
    [][(/\ managerLast'.seq # managerLast.seq
        /\ managerLast'.op = "updateConfig"
        /\ managerLast'.threw)
       => /\ getConfig(config', processEnv) = getConfig(config, processEnv)
          /\ envFile' = envFile]_vars

ThemeCallWithLogo(call) ==
    call.name = "update_organization_theme" /\ Truthy(call.value["logoFile"])
\* how often the organization update is in a sequence of remote calls
UpdatesIssued(issued) ==
    Cardinality({j \in DOMAIN issued : issued[j] = "updateOrganization"})
LogoPcs == {"logoUrl", "logoTransfer", "logoDocument"}

\* C38: in a theme update with a logoFile, a step of the logo upload that
\* fails (upload URL, transfer, file document) does not end the call: the
\* organization update is sent next, once; when that update succeeds the
\* call is answered with a success that has no logoUpload section, and when
\* the update fails the call is answered with the theme-update error.
C38_LogoFailureContinues ==
    [][/\ (/\ calls[1].pc \in LogoPcs
           /\ \/ LogoUrlThrows(1) \/ LogoReadFileThrows(1) \/ LogoTransferThrows(1)
              \/ LogoDocumentThrows(1)
              \/ LogoTransferReturns(1, 403))
          => /\ calls'[1].pc = "remote"
             /\ calls'[1].id = calls[1].id
             /\ calls'[1].logoUploadResult = Null
             /\ UpdatesIssued(calls'[1].issued) = 1
             /\ last' = last
       /\ (calls[1].pc = "remote" /\ ThemeCallWithLogo(calls[1]) /\ Answered)
          => /\ UpdatesIssued(last'.issued) = 1
             /\ last'.issued[Len(last'.issued)] = "updateOrganization"
             /\ RemoteThrows(1)
                  => /\ last'.result.isError
                     /\ MessageOf(last'.result)
                          = HandlerPrefix("update_organization_theme") \o MSG_REMOTE
             /\ RemoteReturns(1)
                  => /\ ~last'.result.isError
                     /\ last'.result.payload.success
                     /\ ("logoUpload" \in DOMAIN last'.result.payload)
                          <=> "createFileDocument" \in Range(last'.issued)
                              /\ calls[1].logoUploadResult # Null]_vars

\* a theme update whose file-document step failed was answered with a
\* success that has no logoUpload section
C38_Witness ==
    /\ last.name = "update_organization_theme"
    /\ ~last.result.isError
    /\ "createFileDocument" \in Range(last.issued)
    /\ "logoUpload" \notin DOMAIN last.result.payload

\* C39 as stated: with the identity token set and no user id configured, a
\* theme update that passed validation with an organizationId and no
\* logoFile sends the organization update and is answered without the
\* user-id error.
C39_NoUserIdNeeded ==
    [][(/\ Answered
        /\ OnlyTokenConfigured
        /\ last'.name = "update_organization_theme"
        /\ last'.stage \in {"handler", "ok"}
        /\ Truthy(Prop(last'.args, "organizationId"))
        /\ ~Truthy(Prop(last'.args, "logoFile")))
       => /\ last'.issued = <<"updateOrganization">>
          /\ ~Carries(MessageOf(last'.result), MSG_USER_NOT_CONFIGURED)]_vars
(***************************************************************************)
(* Properties of the server instances, checked under SpecServers.          *)
(***************************************************************************)
\* the step makes instance i, or fails to
Creates(i) == servers[i].state = "none" /\ servers'[i].state # "none"
\* the step answers a call on an instance
ServerAnswered == serverLast'.seq # serverLast.seq
ConfigNames == {"config_get", "config_set", "config_status", "config_reset"}

\* C33 as stated: an instance can be created while no identity token is
\* configured, and a configuration operation on an instance is never
\* answered with the not-configured error.
C33_ConfigToolsWithoutToken ==
    [][/\ \A i \in ServerIds :
            (Creates(i) /\ LoadFromEnv(processEnv').apiKey = Str(<<>>))
               => servers'[i].state = "running"
       /\ (ServerAnswered /\ serverLast'.name \in ConfigNames)
            => ~Carries(MessageOf(serverLast'.result), MSG_INCOMPLETE)]_vars

\* C34 as stated: the request an instance sends to the remote service right
\* after a successful config_set of the API key on that instance carries
\* the key that was set.
C34_RequestsCarryNewKey ==
    [][(/\ ServerAnswered
        /\ serverLast'.header # Undef
        /\ serverLast.name = "config_set"
        /\ ~serverLast.result.isError
        /\ serverLast.server = serverLast'.server
        /\ Truthy(Prop(serverLast.args, "apiKey")))
       => serverLast'.header = Prop(serverLast.args, "apiKey")]_vars

\* C37 as stated: a config_get on one instance that follows a successful
\* config_set or config_reset on another shows the configuration that
\* instance holds, and every instance's cache agrees with .env.local.
C37_SessionsShareConfiguration ==
    [][(/\ ServerAnswered
        /\ serverLast'.name = "config_get"
        /\ serverLast.name \in {"config_set", "config_reset"}
        /\ ~serverLast.result.isError
        /\ serverLast.server # serverLast'.server)
       => /\ servers'[serverLast'.server].config
               = getConfig(servers[serverLast.server].config, processEnv)
          /\ updateEnvFile(servers'[serverLast'.server].config) = envFile]_vars
(***************************************************************************)
(* Properties of the sessions of MCPHttpServer, checked under SpecHttp.    *)
(***************************************************************************)
\* the step registers connection k
Registers(k) == conns[k].phase = "connecting" /\ conns'[k].phase = "established"
\* the entries of the table that belong to connection k
EntriesOf(tbl, k) == {j \in 1..Len(tbl) : tbl[j].conn = k}

\* C36: a connection that is established is registered under an identifier
\* no entry of the table has, as one new entry that holds its own transport
\* and its own server made for it by the factory; a POST that is forwarded
\* goes to the entry registered under the sessionId of its query, which is
\* the connection that drew that identifier; and a connection whose
\* establishment failed (the factory threw or connect rejected) has no
\* entry and no keepalive timer.
C36_OneEntryPerConnection ==
    [][/\ \A k \in ConnIds :
            Registers(k)
               => /\ SessionIdOf(k) \notin SessionKeys(sessions)
                  /\ Len(sessions') = Len(sessions) + 1
                  /\ SessionGet(sessions', SessionIdOf(k)) = [sid |-> SessionIdOf(k), conn |-> k]
                  /\ EntriesOf(sessions, k) = {}
                  /\ Cardinality(EntriesOf(sessions', k)) = 1
                  /\ conns[k].transport = "created" /\ conns[k].server = "created"
                  /\ conns'[k].heartbeat = "active"
       /\ (Posted /\ httpLast'.forwarded # Undef)
            => /\ httpLast'.forwarded.sid = httpLast'.query.s
               /\ httpLast'.forwarded = SessionGet(sessions, httpLast'.query.s)
               /\ SessionIdOf(httpLast'.forwarded.conn) = httpLast'.query.s
       /\ \A k \in ConnIds :
            conns'[k].phase = "failed"
               => /\ SessionIdOf(k) \notin SessionKeys(sessions')
                  /\ EntriesOf(sessions', k) = {}
                  /\ conns'[k].heartbeat = "none"]_vars

\* two sessions are registered, one connection is established beside one
\* that failed, and a POST was forwarded to the second session
C36_Witness ==
    /\ Len(sessions) = 2
    /\ httpLast.status = 202
    /\ httpLast.forwarded = [sid |-> SessionIdOf(2), conn |-> 2]
\* C35 as stated: whenever the channel of a connection has closed, its
\* session is eventually absent from the table with its keepalive timer no
\* longer active, in every interleaving of establishment, ticks and close.
C35_ClosedSessionsCleaned ==
    \A k \in ConnIds :
        (conns[k].channel = "closed")
            ~> (/\ SessionIdOf(k) \notin SessionKeys(sessions)
                /\ conns[k].heartbeat # "active")
====
